---- MODULE Spec2Model ----
(***************************************************************************)
(* Vehicle dynamics and autopilot control of minicar_roulette_3d.          *)
(*                                                                         *)
(* Fixed-point units used throughout:                                      *)
(*   velocity   cm/s            time      ms                               *)
(*   force      N               mass      kg                               *)
(*   impulse    kg*cm/s         throttle, steer, ratios   1/1000           *)
(*   mu         1/100           position, distance        cm               *)
(* Every car keeps the heading it was spawned with: car c's forward axis   *)
(* is (Heading[c],0,0) and its right axis is (0,0,Heading[c]).             *)
(***************************************************************************)
EXTENDS Integers, Sequences, FiniteSets, TLC

VARIABLES
    focus,      \* the car whose frame loop and input events are followed
    car,        \* per car: body velocity/mass and the refs of PhysicsCar
    keys,       \* per car: keys.current, the set of keys held
    obs,        \* per car: what the last useFrame call did (forces, flags)
    coll,       \* the last collision response that was applied
    hits,       \* per car: number of collision events processed so far
    sinceHit,   \* per car: dt accumulated by ticks since the last processed event
    restBlocked,\* per car: blocked, with forward held, in every frame since it was at rest
    ticks,      \* number of useFrame calls so far
    system,     \* currentSystem of Track: the waypoint provider of the autopilot
    aiState,    \* aiStates.current[0]: what the last controller step left behind
    out,        \* what the last path query or controller step returned
    calls,      \* number of path queries and controller steps so far
    resetSince, \* the last respawn or path change since the last controller step
    text,       \* the participant input typed so far, a sequence of characters
    parsed      \* what parseNameString returned for the text that was submitted

carVars == <<focus, car, keys, obs, coll, hits, sinceHit, restBlocked, ticks>>
pathVars == <<system, aiState, out, calls, resetSince>>
parseVars == <<text, parsed>>
vars == <<carVars, pathVars, parseVars>>

(***************************************************************************)
(* Bounds of the model                                                     *)
(***************************************************************************)
MaxTicks == 1

Cars == {1, 2}
Other(c) == IF c = 1 THEN 2 ELSE 1

\* frame times offered to useFrame: a 60 Hz frame and a 200 ms hitch
DtSet == {16, 200}
\* frame time of the autopilot car
StepDtSet == {16}
\* body masses reported by the physics world
MassSet == {880, 300}
\* fixed bodies (walls, track) the front bumper sensor can overlap
Walls == {1, 2}
\* throttle commands an autopilot hook returns (1/1000)
CmdThrottleSet == {-1000, 0, 1000}
\* ray probe outcomes: front in none/far/near, left and right side hits
RaySet == { [front |-> "none", left |-> FALSE, right |-> FALSE],
            [front |-> "none", left |-> TRUE,  right |-> FALSE],
            [front |-> "far",  left |-> FALSE, right |-> FALSE],
            [front |-> "near", left |-> FALSE, right |-> TRUE] }
\* keys a manual car listens to: forward, backward, right, brake
KeySet == {"w", "s", "d", " "}
\* the combinations of keys that are held down at the same time
KeyCombos == { {}, {"w"}, {"s"}, {" "}, {"w", "d"}, {"w", "s"} }

(***************************************************************************)
(* Arithmetic helpers                                                      *)
(***************************************************************************)
Abs(x) == IF x < 0 THEN -x ELSE x
Sign(x) == IF x > 0 THEN 1 ELSE IF x < 0 THEN -1 ELSE 0
Min(a, b) == IF a < b THEN a ELSE b
Max(a, b) == IF a > b THEN a ELSE b
\* division of reals, truncated toward zero at the fixed-point resolution
Div(a, b) == IF a >= 0 THEN a \div b ELSE -((-a) \div b)

RECURSIVE SqrtSearch(_, _, _)
SqrtSearch(n, lo, hi) ==
    IF lo >= hi THEN lo
    ELSE LET mid == (lo + hi + 1) \div 2
         IN IF mid * mid <= n THEN SqrtSearch(n, mid, hi)
                              ELSE SqrtSearch(n, lo, mid - 1)
\* Math.sqrt, rounded down; arguments stay below 2^31
Isqrt(n) ==
    IF n <= 0 THEN 0
    ELSE IF n < 65536 THEN SqrtSearch(n, 0, 255)
    ELSE IF n < 16777216 THEN SqrtSearch(n, 256, 4095)
    ELSE SqrtSearch(n, 4096, 46340)

RECURSIVE Root5Search(_, _, _)
Root5Search(n, lo, hi) ==
    IF lo >= hi THEN lo
    ELSE LET mid == (lo + hi + 1) \div 2
         IN IF mid * mid * mid * mid * mid <= n THEN Root5Search(n, mid, hi)
                                                ELSE Root5Search(n, lo, mid - 1)
\* fifth root rounded down, for arguments up to 10^9
IRoot5(n) == Root5Search(n, 0, 63)

clamp(x, a, b) == Max(a, Min(b, x))
\* lerp(a, b, t) with t in 1/1000
lerp(a, b, t) == a + Div((b - a) * Min(1000, Max(0, t)), 1000)
applyDeadzone(x, dz) == IF Abs(x) < dz THEN 0 ELSE x
\* signPow(t, 1.6) = sign(t) * |t|^1.6 = sign(t) * |t| * (|t|^3)^(1/5)
signPow(t) ==
    IF t = 0 THEN 0
    ELSE LET a == Abs(t)
             p == Min(1000, (IRoot5(a * a * a) * 1000) \div 63)
         IN Sign(t) * ((a * p) \div 1000)

(***************************************************************************)
(* Props of the two PhysicsCar instances                                   *)
(***************************************************************************)
Heading == [c \in Cars |-> IF c = 1 THEN 1 ELSE -1]
\* car 1 is driven by keys, car 2 by an autopilot hook
AutoControl == [c \in Cars |-> c = 2]
\* the car under autoControl is the one that is given an autopilot hook
autopilot == [c \in Cars |-> c = 2]
engineForce == [c \in Cars |-> IF c = 1 THEN 2300 ELSE 5200]
brakeForce == [c \in Cars |-> 6500]
maxSpeed == [c \in Cars |-> IF c = 1 THEN 12 ELSE 14]
mu == [c \in Cars |-> IF c = 1 THEN 70 ELSE 80]

\* length of the horizontal part of a vector
PlanarLen(v) ==
    IF v.z = 0 THEN Abs(v.x)
    ELSE IF v.x = 0 THEN Abs(v.z)
    ELSE Isqrt(v.x * v.x + v.z * v.z)
hardMax(c) == maxSpeed[c] * 105
maxTraction(m, c) == (m * 981 * mu[c]) \div 10000

(***************************************************************************)
(* Vector helpers on the horizontal plane                                  *)
(***************************************************************************)
\* mag times the unit vector of v2 (Vector3.normalize gives 0 for a zero vector)
Along(v2, mag) ==
    LET len == PlanarLen(v2)
    IN IF len = 0 THEN [x |-> 0, z |-> 0]
       ELSE [x |-> Div(v2.x * mag, len), z |-> Div(v2.z * mag, len)]
forwardDot(c, v2) == v2.x * Heading[c]
rightDot(c, v2) == v2.z * Heading[c]

(***************************************************************************)
(* useFrame, step by step                                                  *)
(***************************************************************************)
CooldownCleared(t, dt) == IF t > 0 THEN 0 ELSE t
\* timers are decreased by delta while they are positive
CooldownUpdate(t, dt) == IF t > 0 THEN t - dt ELSE t

\* manual throttle: smoothing, deadzone, curve, one-key guards, front-block snap
ManualThrottle(prev, f, b, frontBlocked, dt) ==
    LET rawThrottleCmd == (IF f THEN 1000 ELSE 0) + (IF b THEN -1000 ELSE 0)
        speedK == IF rawThrottleCmd > prev THEN (9 * dt) \div 2 ELSE 15 * dt
        sm == clamp(lerp(prev, rawThrottleCmd, speedK), -1000, 1000)
        throttleProcessed == signPow(applyDeadzone(sm, 40))
        guarded == IF f /\ ~b /\ throttleProcessed < 0 THEN 0
                   ELSE IF b /\ ~f /\ throttleProcessed > 0 THEN 0
                   ELSE throttleProcessed
    IN IF frontBlocked /\ f /\ ~b
         THEN [target |-> Min(0, guarded), sm |-> sm]
       ELSE IF frontBlocked /\ b
         THEN [target |-> -1000, sm |-> lerp(prev, -1000, Min(1000, dt * 35))]
       ELSE [target |-> guarded, sm |-> sm]

\* manual steering target: speed sensitivity and low-speed scale
ManualSteer(c, l, r, speed) ==
    LET baseSteering == (IF l THEN -1 ELSE 0) + (IF r THEN 1 ELSE 0)
        speedRatio == clamp(Div(speed * 10, maxSpeed[c]), 0, 1000)
        pow15 == (speedRatio * Isqrt(speedRatio * 1000)) \div 1000
        steerSensitivity == clamp(1000 - pow15, 200, 1000)
        lowSpeedSteerScale == 650 + (350 * clamp(Div(speed * 1000, 200), 0, 1000)) \div 1000
    IN Div(baseSteering * steerSensitivity * lowSpeedSteerScale, 1000)

DriveThrottleUnblocked(throttle, frontBlocked, frontNear, b) ==
    IF frontBlocked /\ frontNear
      THEN Min(throttle, IF b THEN -1000 ELSE -700)
      ELSE throttle
\* the throttle that reaches the engine once the front-block rules are applied
DriveThrottle(throttle, frontBlocked, frontNear, b) ==
    LET t1 == IF frontBlocked /\ throttle > 0 THEN 0 ELSE throttle
    IN IF frontBlocked /\ frontNear
         THEN Min(t1, IF b THEN -1000 ELSE -700)
         ELSE t1

NoTractionClamp(c, m, driveThrottle, reverseBoost) ==
    Div(engineForce[c] * (IF reverseBoost THEN Div(driveThrottle * 16, 10) ELSE driveThrottle), 1000)
\* engineForce * throttle (times 1.6 under reverse boost), clamped to +-maxTraction
DriveForce(c, m, driveThrottle, reverseBoost) ==
    LET raw == Div(engineForce[c] * (IF reverseBoost THEN Div(driveThrottle * 16, 10) ELSE driveThrottle), 1000)
    IN Max(-maxTraction(m, c), Min(maxTraction(m, c), raw))

driveSteerScale(steer, speed) ==
    LET speedSteerRatio == clamp(Div(speed * 1000, 600), 0, 1000)
    IN clamp(1000 - (Abs(steer) * (1000 - speedSteerRatio)) \div 2000, 500, 1000)

\* drag + rolling resistance magnitude, normalised against baseMax = 12
DragMagnitude(c, speed) ==
    LET ms == Max(1, maxSpeed[c])
        drag == (((((speed * speed) \div 100) * 22) \div 10000) * 144) \div (ms * ms)
        roll == (7 * speed * 12) \div (100 * ms)
    IN drag + roll
DownForce(c, speed) ==
    LET ms == Max(1, maxSpeed[c])
    IN (((((speed * speed) \div 100) * 20) \div 10000) * 144) \div (ms * ms)

\* vertical speed cap: rewrites the velocity read at the start of the tick
VerticalCap(lv, body) ==
    IF Abs(lv.y) > 1600 THEN [x |-> lv.x, y |-> Sign(lv.y) * 1600, z |-> lv.z] ELSE body

\* planar hard cap: tested on the speed read at the start of the tick
HardCap(c, speed, v2, lv, body) ==
    IF speed > hardMax(c) /\ speed > 0
      THEN LET d == Along(v2, hardMax(c)) IN [x |-> d.x, y |-> lv.y, z |-> d.z]
      ELSE body

\* the yaw rate (1/1000 rad/s) in the command of the autopilot hook
HookYawRate == 400

\* the target yaw rate from the smoothed steering input, blended with the
\* assist yaw rate when there is one (assistBlend = 0.25), with the deadband
\* of 0.03 rad/s
ManualTargetYaw(auto, steer, speed, assistYaw) ==
    LET speedRatioSteer == clamp(Div((speed - 90) * 1000, 800), 0, 1000)
        manualYaw == Div(Div(steer * 1700, 1000)
                           * (IF auto THEN speedRatioSteer ELSE Max(350, speedRatioSteer)), 1000)
        hasAssist == ~auto /\ assistYaw.has
        blended == IF hasAssist
                     THEN Div(750 * manualYaw + 250 * clamp(assistYaw.v, -1700, 1700), 1000)
                     ELSE manualYaw
    IN IF Abs(blended) < 30 THEN 0 ELSE blended

\* targetYaw of useFrame: a stored yaw-rate command comes first (clamped to
\* 1.7 rad/s, deadband 0.01); no steer command is ever stored by the hook
TargetYaw(auto, yawRateCmd, assistYaw, steer, speed) ==
    IF yawRateCmd.has
      THEN LET t == clamp(yawRateCmd.v, -1700, 1700) IN IF Abs(t) < 10 THEN 0 ELSE t
      ELSE ManualTargetYaw(auto, steer, speed, assistYaw)

\* wasFrontBlocked left as it was found
WasFrontBlockedKept(entry, frontBlocked, was) == was
\* wasFrontBlocked after the front-block entry test: set by an entry, cleared
\* by a frame whose front is not blocked, kept otherwise
WasFrontBlockedUpdate(entry, frontBlocked, was) ==
    IF entry THEN TRUE ELSE IF ~frontBlocked THEN FALSE ELSE was

\* The whole of one useFrame call for a body that is above the floor.
\* s: the car's refs and body, K: keys held, rays: probe results,
\* cmdThrottle: what the autopilot hook returns when it is called.
\* Result: the refs and body after the call, the forces handed to the
\* physics world and a record of what was applied.
Frame(c, s, K, dt, rays, cmdThrottle) ==
    LET lv == s.vel
        m == s.mass
        v2a == [x |-> lv.x, z |-> lv.z]
        speed == PlanarLen(v2a)
        rightBlocked == rays.right
        leftBlocked == rays.left
        frontBlockedRay == rays.front # "none"
        frontBlocked == frontBlockedRay \/ s.frontSensorBlocked
        frontNear == s.frontSensorBlocked \/ rays.front = "near"
        \* front-block entry: bounce impulse, avoidance sign and timer
        entry == frontBlocked /\ frontNear /\ ~s.wasFrontBlocked
        entryImpulse == entry /\ forwardDot(c, v2a) > 5
        body1 == IF entryImpulse THEN [lv EXCEPT !.x = lv.x - Heading[c] * 100] ELSE lv
        wallAvoidSteerSign1 ==
            IF entry THEN (IF leftBlocked # rightBlocked THEN (IF rightBlocked THEN -1 ELSE 1) ELSE 1)
                     ELSE s.wallAvoidSteerSign
        wallAvoidTimer1 == IF entry THEN 600 ELSE s.wallAvoidTimer
        wasFrontBlocked1 == WasFrontBlockedUpdate(entry, frontBlocked, s.wasFrontBlocked)
        \* forward velocity removal, written from the velocity read at tick start
        removal == frontBlocked /\ frontNear /\ forwardDot(c, v2a) > 1
        v2 == IF removal THEN [x |-> lv.x - Heading[c] * forwardDot(c, v2a), z |-> lv.z] ELSE v2a
        body2 == IF removal THEN [x |-> v2.x, y |-> lv.y, z |-> v2.z] ELSE body1
        \* key state
        f == "w" \in K
        b == "s" \in K
        l == "a" \in K
        r == "d" \in K
        br == " " \in K
        vPlanarLen == PlanarLen(v2)
        snap == ~f /\ ~b /\ ~br /\ vPlanarLen < 8
        body3 == IF snap THEN [x |-> 0, y |-> lv.y, z |-> 0] ELSE body2
        \* control source
        auto == s.autoControl
        hookCmd == [has |-> autopilot[c], v |-> IF autopilot[c] THEN HookYawRate ELSE 0]
        yawRateCmd1 == IF auto THEN hookCmd ELSE s.yawRateCmd
        assistYawRate1 == IF auto THEN s.assistYawRate ELSE hookCmd
        man == ManualThrottle(s.throttle, f, b, frontBlocked, dt)
        targetThrottle == IF auto
                            THEN (IF autopilot[c] THEN clamp(cmdThrottle, -1000, 1000) ELSE 300)
                            ELSE man.target
        throttleSm == IF auto THEN s.throttle ELSE man.sm
        targetSteer == IF auto THEN 0 ELSE ManualSteer(c, l, r, speed)
        steer == lerp(s.steer, targetSteer, dt * 12)
        throttle == targetThrottle
        \* drive and brake
        traction == maxTraction(m, c)
        driveThrottle == DriveThrottle(throttle, frontBlocked, frontNear, b)
        reverseBoost == frontBlocked /\ b /\ driveThrottle < 0
        autoBrake == auto /\ driveThrottle < 0 /\ speed > 20
        autoBrakeMag == IF autoBrake THEN Min((brakeForce[c] * Abs(driveThrottle)) \div 1000, traction) ELSE 0
        driveForce == DriveForce(c, m, driveThrottle, reverseBoost)
        scaled == IF driveThrottle > 0
                    THEN Div(driveForce * driveSteerScale(steer, speed), 1000)
                    ELSE driveForce
        \* side unstick
        lateralDir == IF rightBlocked /\ ~leftBlocked THEN -1
                      ELSE IF leftBlocked /\ ~rightBlocked THEN 1 ELSE 0
        sideUnstick == ~frontBlocked /\ s.sideUnstickCooldown <= 0 /\ throttle > 0
                       /\ speed < 120 /\ (leftBlocked \/ rightBlocked) /\ lateralDir # 0
        \* braking on the brake key or when coasting
        wantBrake == br \/ (~f /\ ~b)
        brake == wantBrake /\ ~frontBlocked /\ vPlanarLen > 8
        brakeMag == IF brake
                      THEN Min((brakeForce[c] * (IF br THEN 1000 ELSE 150)) \div 1000, traction)
                      ELSE 0
        assistBrake == ~wantBrake /\ f /\ Abs(steer) > 600 /\ speed > 5 /\ speed < 120
        assistMag == IF assistBrake THEN Min(m * 5, traction \div 4) ELSE 0
        \* reverse unstick impulse
        frontUnstick == frontBlocked /\ speed < 50 /\ s.frontUnstickCooldown <= 0
        body4 == IF frontUnstick THEN [body3 EXCEPT !.x = body3.x - Heading[c] * 130] ELSE body3
        \* wall-avoidance steering assist
        avoid == wallAvoidTimer1 > 0
        steerOut == IF avoid THEN lerp(steer, 700 * wallAvoidSteerSign1, dt * 10) ELSE steer
        wallAvoidTimer2 == IF avoid THEN wallAvoidTimer1 - dt ELSE wallAvoidTimer1
        \* lateral slip damping
        lateralVelocity == rightDot(c, v2)
        lowSpeedFactor == 1000 - clamp(Div(speed * 1000, 600), 0, 1000)
        lateralGain == 900 + (Abs(steer) * lowSpeedFactor) \div 1000
        lateralDrag == IF Abs(lateralVelocity) > 15
                         THEN -Div(Div(lateralVelocity * m, 100) * lateralGain, 1000)
                         ELSE 0
        \* drag, rolling resistance and downforce
        resist == speed > 1
        dragMag == IF resist THEN DragMagnitude(c, speed) ELSE 0
        opposing == Along(v2, autoBrakeMag + brakeMag + assistMag + dragMag)
        forceX == Heading[c] * scaled
                  + (IF sideUnstick THEN Heading[c] * m * 4 ELSE 0)
                  - opposing.x
        forceZ == (IF sideUnstick THEN Heading[c] * m * 12 * lateralDir ELSE 0)
                  + Heading[c] * lateralDrag
                  - opposing.z
        forceY == IF resist THEN -DownForce(c, speed) ELSE 0
        \* target yaw rate of the steering control
        targetYaw == TargetYaw(auto, yawRateCmd1, assistYawRate1, steer, speed)
        \* clamps
        body5 == VerticalCap(lv, body4)
        body6 == HardCap(c, speed, v2, lv, body5)
    IN [ car |-> [s EXCEPT !.vel = body6,
                           !.wasFrontBlocked = wasFrontBlocked1,
                           !.wallAvoidTimer = wallAvoidTimer2,
                           !.wallAvoidSteerSign = wallAvoidSteerSign1,
                           !.throttle = throttleSm,
                           !.yawRateCmd = yawRateCmd1,
                           !.assistYawRate = assistYawRate1,
                           !.steer = steerOut,
                           !.sideUnstickCooldown = IF sideUnstick THEN 250 ELSE s.sideUnstickCooldown,
                           !.frontUnstickCooldown = IF frontUnstick THEN 300 ELSE s.frontUnstickCooldown],
         force |-> [x |-> forceX, y |-> forceY, z |-> forceZ],
         obs |-> [kind |-> "tick", dt |-> dt, speed |-> speed,
                  frontBlocked |-> frontBlocked, frontNear |-> frontNear,
                  throttle |-> throttle, driveThrottle |-> driveThrottle,
                  driveForce |-> scaled, traction |-> traction,
                  brake |-> autoBrakeMag + brakeMag + assistMag,
                  capped |-> (speed > hardMax(c) /\ speed > 0),
                  force |-> [x |-> forceX, y |-> forceY, z |-> forceZ],
                  impulse |-> (entryImpulse \/ frontUnstick),
                  autopilotCalled |-> autopilot[c],
                  steer |-> steer, targetYaw |-> targetYaw,
                  entry |-> entry, entryImpulse |-> entryImpulse,
                  wallAvoidSteerSign |-> wallAvoidSteerSign1,
                  removal |-> removal, lv |-> lv, left |-> body6,
                  keys |-> K] ]

\* linear damping of the rigid body over one step: v / (1 + 0.25 * dt)
Damp(v, dt) == Div(v * 4000, 4000 + dt)
\* The physics step that follows useFrame: the accumulated forces are
\* integrated into the body's velocity and the accumulators are cleared.
\* The vertical speed is left to ground contact and is kept as it is.
PhysicsStep(body, force, m, dt) ==
    [x |-> Damp(body.x + Div(force.x * dt, m * 10), dt),
     y |-> body.y,
     z |-> Damp(body.z + Div(force.z * dt, m * 10), dt)]

(***************************************************************************)
(* Collision response                                                      *)
(***************************************************************************)
\* normalize(myPos - otherPos) on the horizontal plane: car 1 is spawned on
\* the -X side of car 2
collisionDirection(c) == [x |-> IF c = 1 THEN -1 ELSE 1, z |-> 0]

\* -(1 + restitutionCoeff) * relativeVelNormal / (1/myMass + 1/otherMass)
\* with restitutionCoeff = 0.4;  x / (1/a + 1/b) = x * a / (a + b) * b
impulseStrength(relativeVelNormal, myMass, otherMass) ==
    Div(Div(-(14 * relativeVelNormal) * myMass, myMass + otherMass) * otherMass, 10)

\* the impulse vector after the cap of myMass * 12; normal is a unit vector,
\* so |impulse| = |strength| and impulse * (maxImpulse / |impulse|) is the
\* unit vector of the impulse times maxImpulse
CappedImpulse(normal, strength, myMass) ==
    LET impulse == [x |-> normal.x * strength, z |-> normal.z * strength]
        maxImpulse == myMass * 1200
        impulseLength == Abs(strength) * PlanarLen(normal)
    IN IF impulseLength > maxImpulse
         THEN [x |-> normal.x * Sign(strength) * maxImpulse,
               z |-> normal.z * Sign(strength) * maxImpulse]
         ELSE impulse

OtherImpulseOwnCap(normal, strength, myMass, otherMass) ==
    LET j == CappedImpulse(normal, strength, otherMass) IN [x |-> -j.x, z |-> -j.z]
\* the impulse handed to the other body
OtherImpulse(normal, strength, myMass, otherMass) ==
    LET j == CappedImpulse(normal, strength, myMass) IN [x |-> -j.x, z |-> -j.z]

\* body.applyImpulse: the velocity changes at once by impulse / mass
applyImpulse(v, j, m) == [v EXCEPT !.x = v.x + Div(j.x, m), !.z = v.z + Div(j.z, m)]

\* yaw inertia of the body (kg m^2), from its three cuboid colliders:
\* sum of density * volume / 3 * (hx^2 + hz^2)
yawInertia == 290
\* body.applyTorqueImpulse about Y: the yaw rate (mrad/s) changes at once by
\* torque impulse / inertia
applyTorqueImpulse(av, t) == av + Div(t * 10, yawInertia)

\* the yaw torque impulse of a collision: 0.05 of the length the impulse had
\* before the cap, signed by the cross product of normal and relative velocity
spinImpulse(normal, rel, strength) ==
    LET impulseLength == Abs(strength) * PlanarLen(normal)
        spinStrength == (impulseLength * 5) \div 100
        crossProduct == normal.x * rel.z - normal.z * rel.x
    IN IF crossProduct > 0 THEN spinStrength ELSE -spinStrength

\* applyCollisionPhysics: the impulses for my body and for the other body and
\* the torque impulses, or none when the bodies are already separating
applyCollisionPhysics(c, myV, otherV, myMass, otherMass) ==
    LET normal == collisionDirection(c)
        rel == [x |-> myV.x - otherV.x, z |-> myV.z - otherV.z]
        relativeVelNormal == rel.x * normal.x + rel.z * normal.z
        strength == impulseStrength(relativeVelNormal, myMass, otherMass)
    IN IF relativeVelNormal > 0
         THEN [applied |-> FALSE, my |-> [x |-> 0, z |-> 0], other |-> [x |-> 0, z |-> 0],
               torque |-> 0, otherTorque |-> 0]
         ELSE [applied |-> TRUE,
               my |-> CappedImpulse(normal, strength, myMass),
               other |-> OtherImpulse(normal, strength, myMass, otherMass),
               torque |-> spinImpulse(normal, rel, strength),
               otherTorque |-> 0]

impactStrength(myV, otherV) ==
    LET dx == myV.x - otherV.x
        dy == myV.y - otherV.y
        dz == myV.z - otherV.z
    IN IF dy = 0 THEN PlanarLen([x |-> dx, z |-> dz])
       ELSE Isqrt(dx * dx + dy * dy + dz * dz)

(***************************************************************************)
(* Initial state                                                           *)
(***************************************************************************)
NoObs == [kind |-> "none"]
NoColl == [kind |-> "none"]
\* no waypoint provider is mounted, nothing is stored, nothing was returned
NoSystem == [kind |-> "none", waypoints |-> <<>>]
NoAiState == [set |-> FALSE]
NoOut == [kind |-> "none"]

Zero3 == [x |-> 0, y |-> 0, z |-> 0]
\* the position prop of the car, kept in spawn.current
spawn(c) == [x |-> IF c = 1 THEN -300 ELSE 300, y |-> 50, z |-> 0]
\* where a body that left the ground is found: on and below the floor threshold
FallSet == { [y |-> -50, av |-> 0, vy |-> -1700], [y |-> -60, av |-> 500, vy |-> -500] }

NewCar(c, m, fs) ==
    [pos |-> spawn(c),
     vel |-> [x |-> Heading[c] * fs, y |-> 0, z |-> 0],
     av |-> 0,
     mass |-> m,
     collisionCooldown |-> 0, sideUnstickCooldown |-> 0, frontUnstickCooldown |-> 0,
     frontSensorBlocked |-> FALSE, overlap |-> {}, wasFrontBlocked |-> FALSE,
     wallAvoidTimer |-> 0, wallAvoidSteerSign |-> 0,
     throttle |-> 0, steer |-> 0,
     autoControl |-> AutoControl[c],
     yawRateCmd |-> [has |-> FALSE, v |-> 0], assistYawRate |-> [has |-> FALSE, v |-> 0]]

\* forward speeds the two cars are found at: at rest, both at 12 m/s, or
\* each at its hard cap
StartSpeeds == { [c \in Cars |-> 0], [c \in Cars |-> 1200], [c \in Cars |-> hardMax(c)] }

\* front-block entries seen in the run of front-blocked frames that an
\* observation ends
EntriesInRun(o) == IF o.kind = "none" THEN 0 ELSE o.runEntries
\* the observation of a frame, with the entries of its run of blocked frames
\* counted: a frame whose front is not blocked ends the run
Observed(before, o) ==
    o @@ [runEntries |-> IF o.kind = "respawn" THEN EntriesInRun(before)
                         ELSE IF ~o.frontBlocked THEN 0
                         ELSE EntriesInRun(before) + (IF o.entry THEN 1 ELSE 0)]

\* what happened to the focus car before the behaviour starts: nothing, or
\* one frame that found the front blocked and near (forward held if manual)
EarlierFrames ==
    { [kind |-> "none"],
      [kind |-> "frame", K |-> {"w"}, dt |-> 16,
       rays |-> [front |-> "near", left |-> FALSE, right |-> TRUE], cmd |-> 1000] }

Init ==
    /\ focus \in Cars
    /\ \E m1 \in MassSet, fs \in StartSpeeds, h \in EarlierFrames :
          LET fresh == [c \in Cars |-> NewCar(c, IF c = 1 THEN m1 ELSE 880, fs[c])]
              K == IF h.kind = "none" \/ AutoControl[focus] THEN {} ELSE h.K
          IN IF h.kind = "none"
               THEN /\ car = fresh
                    /\ obs = [c \in Cars |-> NoObs]
                    /\ sinceHit = [c \in Cars |-> 0]
                    /\ restBlocked = [c \in Cars |-> FALSE]
                    /\ keys = [c \in Cars |-> {}]
               ELSE \E fr \in {Frame(focus, fresh[focus], K, h.dt, h.rays, h.cmd)} :
                    /\ car = [fresh EXCEPT ![focus] =
                                 [fr.car EXCEPT !.vel = PhysicsStep(fr.car.vel, fr.force, fr.car.mass, h.dt)]]
                    /\ obs = [c \in Cars |-> IF c = focus THEN Observed(NoObs, fr.obs) ELSE NoObs]
                    /\ sinceHit = [c \in Cars |-> IF c = focus THEN h.dt ELSE 0]
                    /\ restBlocked = [c \in Cars |->
                                         c = focus /\ "w" \in K /\ fresh[c].vel = Zero3]
                    /\ keys = [c \in Cars |-> IF c = focus THEN K ELSE {}]
    /\ coll = NoColl
    /\ hits = [c \in Cars |-> 0]
    /\ ticks = 0
    /\ system = NoSystem
    /\ aiState = NoAiState
    /\ out = NoOut
    /\ calls = 0
    /\ resetSince = "none"
    /\ text = <<>>
    /\ parsed = [kind |-> "none"]

(***************************************************************************)
(* Actions.  In one behaviour the frames, the input events and the         *)
(* collision handler of one car, focus, are followed; the other car is the *)
(* rigid body it collides with.  Input events are followed as long as a    *)
(* frame can still observe them.                                           *)
(***************************************************************************)
\* the three cooldown timers at the top of useFrame
TimersUpdated(s, dt) ==
    [s EXCEPT !.collisionCooldown = CooldownUpdate(@, dt),
              !.sideUnstickCooldown = CooldownUpdate(@, dt),
              !.frontUnstickCooldown = CooldownUpdate(@, dt)]

\* the body ends up off the ground, tumbling (the world moved it there)
Fall(c, p) ==
    /\ c = focus /\ ticks < MaxTicks
    /\ car[c].pos = spawn(c)
    /\ car' = [car EXCEPT ![c].pos = [x |-> spawn(c).x + Heading[c] * 200, y |-> p.y, z |-> 0],
                          ![c].av = p.av,
                          ![c].vel.y = p.vy]
    /\ restBlocked' = [restBlocked EXCEPT ![c] = FALSE]
    /\ UNCHANGED <<focus, keys, obs, coll, hits, sinceHit, ticks>>
    /\ UNCHANGED <<pathVars, parseVars>>

\* teleport to spawn with linear and angular velocity zero
Respawned(c, s) == [s EXCEPT !.pos = spawn(c), !.vel = Zero3, !.av = 0]
RespawnFallsThrough(c, s, K, dt) ==
    LET fr == Frame(c, Respawned(c, s), K, dt, [front |-> "none", left |-> FALSE, right |-> FALSE], 1000)
    IN [fr EXCEPT !.obs.kind = "respawn"]
\* the fall safety net of useFrame: respawn and return
FallRespawn(c, s, K, dt) ==
    [ car |-> Respawned(c, s),
      force |-> Zero3,
      obs |-> [kind |-> "respawn", dt |-> dt, force |-> Zero3, impulse |-> FALSE,
               autopilotCalled |-> FALSE, from |-> [pos |-> s.pos, vel |-> s.vel, av |-> s.av]] ]

\* useFrame of car c when the body has fallen below the floor: respawn
TickRespawn(c, dt) ==
    /\ c = focus
    /\ ticks < MaxTicks
    /\ car[c].pos.y < -50
    /\ \E fr \in {FallRespawn(c, TimersUpdated(car[c], dt), keys[c], dt)} :
          /\ car' = [car EXCEPT ![c] =
                        [fr.car EXCEPT !.vel = PhysicsStep(fr.car.vel, fr.force, fr.car.mass, dt)]]
          /\ obs' = [obs EXCEPT ![c] = Observed(obs[c], fr.obs)]
    /\ sinceHit' = [sinceHit EXCEPT ![c] = Min(200, @ + dt)]
    /\ restBlocked' = [restBlocked EXCEPT ![c] = FALSE]
    /\ ticks' = ticks + 1
    /\ resetSince' = "fall"
    /\ UNCHANGED <<focus, keys, coll, hits>>
    /\ UNCHANGED <<system, aiState, out, calls, parseVars>>

\* useFrame of car c followed by the physics step of its body
Tick(c, dt, rays, cmdThrottle) ==
    /\ c = focus
    /\ ticks < MaxTicks
    /\ car[c].pos.y >= -50
    /\ \E fr \in {Frame(c, TimersUpdated(car[c], dt), keys[c], dt, rays, cmdThrottle)} :
          /\ car' = [car EXCEPT ![c] =
                        [fr.car EXCEPT !.vel = PhysicsStep(fr.car.vel, fr.force, fr.car.mass, dt)]]
          /\ obs' = [obs EXCEPT ![c] = Observed(obs[c], fr.obs)]
          /\ restBlocked' = [restBlocked EXCEPT ![c] =
                                /\ fr.obs.frontBlocked
                                /\ "w" \in keys[c]
                                /\ (restBlocked[c] \/ car[c].vel = Zero3)]
    /\ sinceHit' = [sinceHit EXCEPT ![c] = Min(200, @ + dt)]
    /\ ticks' = ticks + 1
    /\ UNCHANGED <<focus, keys, coll, hits>>
    /\ UNCHANGED <<pathVars, parseVars>>

\* keydown listener, registered in manual mode only; repeats are ignored
KeyDown(c, k) ==
    /\ c = focus /\ ticks < MaxTicks
    /\ ~car[c].autoControl
    /\ k \notin keys[c]
    /\ (keys[c] \cup {k}) \in KeyCombos
    /\ keys' = [keys EXCEPT ![c] = @ \cup {k}]
    /\ UNCHANGED <<focus, car, obs, coll, hits, sinceHit, restBlocked, ticks>>
    /\ UNCHANGED <<pathVars, parseVars>>

\* keyup listener
KeyUp(c, k) ==
    /\ c = focus /\ ticks < MaxTicks
    /\ ~car[c].autoControl
    /\ k \in keys[c]
    /\ (keys[c] \ {k}) \in KeyCombos
    /\ keys' = [keys EXCEPT ![c] = @ \ {k}]
    /\ UNCHANGED <<focus, car, obs, coll, hits, sinceHit, restBlocked, ticks>>
    /\ UNCHANGED <<pathVars, parseVars>>

\* blur listener: all keys are released
Blur(c) ==
    /\ c = focus /\ ticks < MaxTicks
    /\ ~car[c].autoControl
    /\ keys[c] # {}
    /\ keys' = [keys EXCEPT ![c] = {}]
    /\ UNCHANGED <<focus, car, obs, coll, hits, sinceHit, restBlocked, ticks>>
    /\ UNCHANGED <<pathVars, parseVars>>

\* onIntersectionEnter of the front bumper sensor: it starts to overlap the
\* fixed body w
SensorEnter(c, w) ==
    /\ c = focus /\ ticks < MaxTicks
    /\ w \notin car[c].overlap
    /\ car' = [car EXCEPT ![c].frontSensorBlocked = TRUE,
                          ![c].overlap = @ \cup {w}]
    /\ UNCHANGED <<focus, keys, obs, coll, hits, sinceHit, restBlocked, ticks>>
    /\ UNCHANGED <<pathVars, parseVars>>

\* onIntersectionExit of the front bumper sensor: it stops overlapping the
\* fixed body w
SensorExit(c, w) ==
    /\ c = focus /\ ticks < MaxTicks
    /\ w \in car[c].overlap
    /\ car' = [car EXCEPT ![c].frontSensorBlocked = FALSE,
                          ![c].overlap = @ \ {w}]
    /\ UNCHANGED <<focus, keys, obs, coll, hits, sinceHit, restBlocked, ticks>>
    /\ UNCHANGED <<pathVars, parseVars>>

\* handleCollisionEnter of car c on the bodies cs: nothing while the cooldown
\* runs or when the impact is weaker than 1 m/s; else the collision physics
\* on both bodies and the cooldown of 0.2 s
handleCollisionEnter(cs, c) ==
    LET o == Other(c)
        myV == cs[c].vel
        otherV == cs[o].vel
        res == applyCollisionPhysics(c, myV, otherV, cs[c].mass, cs[o].mass)
    IN IF cs[c].collisionCooldown > 0 \/ impactStrength(myV, otherV) < 100
         THEN [ran |-> FALSE, applied |-> FALSE, car |-> cs]
         ELSE [ran |-> TRUE, applied |-> res.applied, res |-> res,
               car |-> [cs EXCEPT ![c].vel = applyImpulse(myV, res.my, cs[c].mass),
                                  ![c].av = applyTorqueImpulse(@, res.torque),
                                  ![c].collisionCooldown = 200,
                                  ![o].vel = applyImpulse(otherV, res.other, cs[o].mass),
                                  ![o].av = applyTorqueImpulse(@, res.otherTorque)]]

\* a contact with the other car for which only car c handles collision-enter
CollisionEnter(c) ==
    /\ c = focus
    /\ \E h \in {handleCollisionEnter(car, c)} :
          /\ h.ran
          /\ car' = h.car
          /\ coll' = [kind |-> IF h.applied THEN "applied" ELSE "separating",
                      my |-> c, impulse |-> h.res.my, otherImpulse |-> h.res.other,
                      torque |-> h.res.torque, otherTorque |-> h.res.otherTorque,
                      pre |-> [d \in Cars |-> car[d].vel],
                      post |-> [d \in Cars |-> h.car[d].vel]]
          /\ hits' = [hits EXCEPT ![c] = @ + 1]
          /\ sinceHit' = [sinceHit EXCEPT ![c] = 0]
          /\ restBlocked' = [d \in Cars |-> restBlocked[d] /\ ~h.applied]
          /\ UNCHANGED <<focus, keys, obs, ticks>>
          /\ UNCHANGED <<pathVars, parseVars>>

\* the two handlers of one contact, called one after the other
BothHandlers(cs, first) ==
    LET h1 == handleCollisionEnter(cs, first)
        h2 == handleCollisionEnter(h1.car, Other(first))
    IN [car |-> h2.car,
        ran |-> [d \in Cars |-> IF d = first THEN h1.ran ELSE h2.ran],
        applications |-> (IF h1.applied THEN 1 ELSE 0) + (IF h2.applied THEN 1 ELSE 0)]

\* a contact of the two cars when both handle collision-enter: the physics
\* world calls the handler of one car, then that of the other
CollisionEnterBoth(first) ==
    /\ \A d \in Cars : car[d].collisionCooldown <= 0
    /\ \E h \in {BothHandlers(car, first)} :
          /\ h.ran[first]
          /\ car' = h.car
          /\ coll' = [kind |-> "both", first |-> first, applications |-> h.applications,
                      pre |-> [d \in Cars |-> car[d].vel],
                      post |-> [d \in Cars |-> h.car[d].vel]]
          /\ hits' = [d \in Cars |-> IF h.ran[d] THEN hits[d] + 1 ELSE hits[d]]
          /\ sinceHit' = [d \in Cars |-> IF h.ran[d] THEN 0 ELSE sinceHit[d]]
          /\ restBlocked' = [d \in Cars |-> restBlocked[d] /\ h.applications = 0]
          /\ UNCHANGED <<focus, keys, obs, ticks>>
          /\ UNCHANGED <<pathVars, parseVars>>

\* the autopilot hook is called for a car under autoControl only
CmdSet(c) == IF car[c].autoControl /\ autopilot[c] THEN CmdThrottleSet ELSE {0}

Next ==
    \/ \E c \in Cars, p \in FallSet : Fall(c, p)
    \/ \E c \in Cars, dt \in DtSet : TickRespawn(c, dt)
    \/ \E c \in Cars, dt \in DtSet, rays \in RaySet : \E cmd \in CmdSet(c) : Tick(c, dt, rays, cmd)
    \/ \E c \in Cars, k \in KeySet : KeyDown(c, k)
    \/ \E c \in Cars, k \in KeySet : KeyUp(c, k)
    \/ \E c \in Cars : Blur(c)
    \/ \E c \in Cars : SensorEnter(c, 1)
    \/ \E c \in Cars : SensorExit(c, 1)
    \/ \E c \in Cars : CollisionEnter(c)

Spec == Init /\ [][Next]_vars

\* The events of the physics world on their own: contacts of the two cars
\* that both handle, the sensor against several fixed bodies, falls, and the
\* frames that follow them at 60 Hz with the keys as they are held
NextContact ==
    \/ \E c \in Cars : CollisionEnterBoth(c)
    \/ \E c \in Cars, w \in Walls : SensorEnter(c, w)
    \/ \E c \in Cars, w \in Walls : SensorExit(c, w)
    \/ \E c \in Cars, p \in FallSet : Fall(c, p)
    \/ \E c \in Cars, dt \in StepDtSet : TickRespawn(c, dt)
    \/ \E c \in Cars, dt \in StepDtSet, rays \in RaySet : \E cmd \in CmdSet(c) : Tick(c, dt, rays, cmd)

SpecContact == Init /\ [][NextContact]_vars

\* the autoControl prop of car c changes: the key listeners are registered
\* anew for the mode, the refs of the car stay as they are
SetAutoControl(c) ==
    /\ c = focus /\ ticks < MaxTicks
    /\ car' = [car EXCEPT ![c].autoControl = ~@]
    /\ UNCHANGED <<focus, keys, obs, coll, hits, sinceHit, restBlocked, ticks>>
    /\ UNCHANGED <<pathVars, parseVars>>

\* The frames of a car whose control mode is switched
NextMode ==
    \/ \E c \in Cars : SetAutoControl(c)
    \/ \E c \in Cars, dt \in StepDtSet, rays \in RaySet : \E cmd \in CmdSet(c) : Tick(c, dt, rays, cmd)

SpecMode == Init /\ [][NextMode]_vars

(***************************************************************************)
(* Angles (1/1000 rad) and the trigonometric functions of Math             *)
(***************************************************************************)
Pi == 3142
TwoPi == 6283
HalfPi == 1571

\* wrapAngle: into (-pi, pi]
RECURSIVE wrapAngle(_)
wrapAngle(a) ==
    IF a > Pi THEN wrapAngle(a - TwoPi)
    ELSE IF a <= -Pi THEN wrapAngle(a + TwoPi)
    ELSE a

\* Math.sin in 1/1000, by 16x(pi-x) / (5pi^2 - 4x(pi-x)) on [0, pi]
Sin(a) ==
    LET w == wrapAngle(a)
        x == Abs(w)
        q == x * (Pi - x)
    IN Sign(w) * ((160 * q) \div ((5 * Pi * Pi - 4 * q) \div 100))
\* Math.cos in 1/1000
Cos(a) == Sin(a + HalfPi)

\* atan of r/1000 for 0 <= r <= 1000, by (pi/4) r + 0.273 r (1 - r)
AtanUnit(r) == (785 * r) \div 1000 + (273 * r * (1000 - r)) \div 1000000
\* Math.atan2(y, x); atan2(0, 0) = 0
Atan2(y, x) ==
    LET ax == Abs(x)
        ay == Abs(y)
        base == IF ax = 0 /\ ay = 0 THEN 0
                ELSE IF ax >= ay THEN AtanUnit((ay * 1000) \div ax)
                ELSE HalfPi - AtanUnit((ax * 1000) \div ay)
        half == IF x >= 0 THEN base ELSE Pi - base
    IN IF y < 0 THEN -half ELSE half

\* Math.ceil(a / b) for a >= 0, b > 0
CeilDiv(a, b) == (a + b - 1) \div b
\* Vector3.distanceTo on the ground plane
distanceTo(p, q) == PlanarLen([x |-> p.x - q.x, z |-> p.z - q.z])
\* Vector3.lerp with t = i / n
lerpPoint(p, q, i, n) ==
    [x |-> p.x + Div((q.x - p.x) * i, n), z |-> p.z + Div((q.z - p.z) * i, n)]

(***************************************************************************)
(* Waypoint providers                                                      *)
(***************************************************************************)
Waypoint(p, v) == [position |-> p, targetSpeed |-> v, distanceToNext |-> 0]

\* distanceToNext of every sample; the last sample of an open path gets 0
FillDistances(wps) ==
    [i \in 1..Len(wps) |->
        [wps[i] EXCEPT !.distanceToNext =
            IF i = Len(wps) THEN 0 ELSE distanceTo(wps[i].position, wps[i + 1].position)]]

\* StraightWaypointSystem.generate: no samples when start and end coincide
StraightWaypoints(start, end, spacing, speedLimit) ==
    LET dist == distanceTo(end, start)
        n == Max(2, CeilDiv(dist, spacing))
    IN IF dist = 0 THEN <<>>
       ELSE FillDistances([i \in 1..n |->
                Waypoint(lerpPoint(start, end, i - 1, n - 1), speedLimit)])

StraightWaypointSystem(start, end, spacing, speedLimit) ==
    [kind |-> "straight", start |-> start, end |-> end, spacing |-> spacing,
     speedLimit |-> speedLimit,
     waypoints |-> StraightWaypoints(start, end, spacing, speedLimit)]

\* number of samples of the straight approach and of the quarter arc
nS(startX, approachEndX, spacing) == Max(2, CeilDiv(Abs(approachEndX - startX), spacing))
nA(radius, spacing) ==
    Max(4, CeilDiv((HalfPi * radius) \div 1000, Max(60, (spacing * 6) \div 10)))

vCornerSpeedLimit(radius, maxLatAccel, speedLimit) == speedLimit
\* corner speed of an arc sample: min(speedLimit, sqrt(ayMax / (1 / R)))
vCorner(radius, maxLatAccel, speedLimit) ==
    Min(speedLimit, Isqrt(maxLatAccel * radius))

\* TurnWaypointSystem.generate: approach along +X, quarter arc, exit along Z
TurnWaypoints(start, approachEndX, radius, spacing, speedLimit, maxLatAccel, turn, endAbs) ==
    LET R == radius
        x0 == approachEndX
        ns == nS(start.x, x0, spacing)
        approach == [i \in 1..ns |->
            Waypoint([x |-> start.x + Div((x0 - start.x) * (i - 1), ns - 1), z |-> 0],
                     speedLimit)]
        center == [x |-> x0, z |-> IF turn = "right" THEN R ELSE -R]
        phiStart == IF turn = "right" THEN -HalfPi ELSE HalfPi
        na == nA(R, spacing)
        arc == [i \in 1..na |->
            LET phi == phiStart - Div(phiStart * i, na)
            IN Waypoint([x |-> center.x + Div(R * Cos(phi), 1000),
                         z |-> center.z + Div(R * Sin(phi), 1000)],
                        vCorner(R, maxLatAccel, speedLimit))]
        endArc == arc[na].position
        zEnd == IF turn = "right" THEN endAbs ELSE -endAbs
        ne == Max(2, CeilDiv(Abs(zEnd - endArc.z), spacing))
        exit == [i \in 1..ne |->
            Waypoint([x |-> endArc.x, z |-> endArc.z + Div((zEnd - endArc.z) * i, ne)],
                     speedLimit)]
    IN FillDistances(approach \o arc \o exit)

TurnWaypointSystem(start, approachEndX, radius, spacing, speedLimit, maxLatAccel, turn, endAbs) ==
    [kind |-> "turn", start |-> start, approachEndX |-> approachEndX,
     radius |-> radius, spacing |-> spacing, speedLimit |-> speedLimit,
     maxLatAccel |-> maxLatAccel, turn |-> turn, endAbs |-> endAbs,
     waypoints |-> TurnWaypoints(start, approachEndX, radius, spacing, speedLimit,
                                 maxLatAccel, turn, endAbs)]

(***************************************************************************)
(* TrackWaypointSystem (utils/waypointSystem.ts): the closed oval.         *)
(* Lengths in cm, speeds in cm/s, maxLateralAccel in cm/s^2,               *)
(* cornerSpeedFactor in 1/1000.  The direction and normal vectors of a     *)
(* sample are not carried.                                                 *)
(***************************************************************************)
\* radius of a sample on a straight
Infinity == -1

\* generateStraightWaypoints: Math.ceil(distance / spacing) samples from start
\* to end, each at the speed limit
generateStraightWaypoints(startId, start, end, spacing, speedLimit) ==
    LET numWaypoints == CeilDiv(distanceTo(start, end), spacing)
    IN [i \in 1..numWaypoints |->
          [id |-> startId + i - 1,
           position |-> lerpPoint(start, end, i - 1, Max(1, numWaypoints - 1)),
           targetSpeed |-> speedLimit,
           radius |-> Infinity,
           type |-> "straight",
           distanceToNext |-> 0]]

\* generateCurveWaypoints: Math.ceil(arcLength / spacing) samples on the arc,
\* each at min(sqrt(maxLateralAccel * radius), speedLimit * cornerSpeedFactor)
generateCurveWaypoints(startId, center, radius, startAngle, endAngle, spacing, wc) ==
    LET arcLength == (Abs(endAngle - startAngle) * radius) \div 1000
        numWaypoints == CeilDiv(arcLength, spacing)
        maxCornerSpeed == Isqrt(wc.maxLateralAccel * radius)
    IN [i \in 1..numWaypoints |->
          LET angle == startAngle + Div((endAngle - startAngle) * (i - 1), Max(1, numWaypoints - 1))
          IN [id |-> startId + i - 1,
              position |-> [x |-> center.x + Div(radius * Cos(angle), 1000),
                            z |-> center.z + Div(radius * Sin(angle), 1000)],
              targetSpeed |-> Min(maxCornerSpeed, (wc.speedLimit * wc.cornerSpeedFactor) \div 1000),
              radius |-> radius,
              type |-> "corner",
              distanceToNext |-> 0]]

\* calculateWaypointDistances: the sample after the last one is the first one
calculateWaypointDistances(wps) ==
    [i \in 1..Len(wps) |->
        [wps[i] EXCEPT !.distanceToNext =
            distanceTo(wps[i].position, wps[(i % Len(wps)) + 1].position)]]

\* forward pass of optimizeWaypointSpeeds over the target speeds v, from
\* sample i on: each sample is lowered by 0.3 of its excess over the slowest
\* of the next 5 samples
RECURSIVE ForwardPass(_, _)
ForwardPass(v, i) ==
    IF i > Len(v) THEN v
    ELSE LET n == Len(v)
             current == v[i]
             upcoming == { v[((i - 1 + j) % n) + 1] : j \in 1..5 } \cup {current}
             minUpcomingSpeed == CHOOSE x \in upcoming : \A u \in upcoming : x <= u
             speedReduction == ((current - minUpcomingSpeed) * 3) \div 10
         IN ForwardPass([v EXCEPT ![i] = Max(minUpcomingSpeed, current - speedReduction)], i + 1)

\* backward pass of optimizeWaypointSpeeds over the target speeds v, from
\* sample i down: each sample is raised by 0.2 of what the fastest of the 3
\* samples before it is above it, at most to the speed limit
RECURSIVE BackwardPass(_, _, _)
BackwardPass(v, i, speedLimit) ==
    IF i < 1 THEN v
    ELSE LET n == Len(v)
             current == v[i]
             recent == { v[((i - 1 - j + n) % n) + 1] : j \in 1..3 } \cup {current}
             maxRecentSpeed == CHOOSE x \in recent : \A u \in recent : x >= u
             speedIncrease == ((maxRecentSpeed - current) * 2) \div 10
         IN BackwardPass([v EXCEPT ![i] = Min(speedLimit, current + speedIncrease)],
                         i - 1, speedLimit)

optimizeWaypointSpeeds(wps, speedLimit) ==
    LET v == BackwardPass(ForwardPass([i \in 1..Len(wps) |-> wps[i].targetSpeed], 1),
                          Len(wps), speedLimit)
    IN [i \in 1..Len(wps) |-> [wps[i] EXCEPT !.targetSpeed = v[i]]]

\* the first sample on the finish line becomes the start/finish sample
MarkStartFinish(wps, racingLineRadius) ==
    LET hitS == { i \in 1..Len(wps) : /\ Abs(wps[i].position.x) < 200
                                     /\ Abs(wps[i].position.z + racingLineRadius) < 100 }
    IN IF hitS = {} THEN wps
       ELSE [wps EXCEPT ![CHOOSE i \in hitS : \A k \in hitS : i <= k].type = "start_finish"]

\* generateWaypoints: bottom straight, right semicircle, top straight, left
\* semicircle, then distances and speeds
generateWaypoints(tc, wc) ==
    LET width == tc.outerRadius * 2
        straightLength == (width * 8) \div 10
        curveRadius == (width * 2) \div 10
        racingLineRadius == (curveRadius + (curveRadius - tc.trackWidth \div 2)) \div 2
        half == straightLength \div 2
        bottom == generateStraightWaypoints(0, [x |-> -half, z |-> -racingLineRadius],
                      [x |-> half, z |-> -racingLineRadius], wc.straightSpacing, wc.speedLimit)
        right == generateCurveWaypoints(Len(bottom), [x |-> half, z |-> 0], racingLineRadius,
                      -HalfPi, HalfPi, wc.cornerSpacing, wc)
        top == generateStraightWaypoints(Len(bottom) + Len(right), [x |-> half, z |-> racingLineRadius],
                      [x |-> -half, z |-> racingLineRadius], wc.straightSpacing, wc.speedLimit)
        left == generateCurveWaypoints(Len(bottom) + Len(right) + Len(top), [x |-> -half, z |-> 0],
                      racingLineRadius, HalfPi, 3 * HalfPi, wc.cornerSpacing, wc)
        marked == MarkStartFinish(bottom \o right \o top \o left, racingLineRadius)
    IN optimizeWaypointSpeeds(calculateWaypointDistances(marked), wc.speedLimit)

\* new TrackWaypointSystem(trackConfig, waypointConfig)
TrackWaypointSystem(tc, wc) ==
    [kind |-> "track", trackConfig |-> tc, waypointConfig |-> wc,
     waypoints |-> generateWaypoints(tc, wc)]

(***************************************************************************)
(* Pure pursuit                                                            *)
(***************************************************************************)
\* index of the nearest sample, the first one among equals; 0 for no samples
findNearestIndex(wps, from) ==
    IF Len(wps) = 0 THEN 0
    ELSE LET d == [i \in 1..Len(wps) |-> distanceTo(from, wps[i].position)]
         IN CHOOSE i \in 1..Len(wps) :
               \A j \in 1..Len(wps) : d[i] < d[j] \/ (d[i] = d[j] /\ i <= j)

\* the while loop of getLookaheadPoint; the sample after the last one is the
\* first one
RECURSIVE LookaheadWalk(_, _, _)
LookaheadWalk(wps, cur, remaining) ==
    IF remaining <= 0 THEN wps[cur].position
    ELSE LET next == (cur % Len(wps)) + 1
             segLen == wps[cur].distanceToNext
         IN IF segLen = 0 THEN LookaheadWalk(wps, next, remaining)
            ELSE IF remaining <= segLen
              THEN lerpPoint(wps[cur].position, wps[next].position, remaining, segLen)
            ELSE LookaheadWalk(wps, next, remaining - segLen)

\* getLookaheadPoint: the point Ld ahead of the nearest sample.  The loop
\* never ends when no segment has a length and Ld > 0.
getLookaheadPoint(wps, from, Ld) ==
    IF Len(wps) = 0 THEN [kind |-> "point", p |-> from]
    ELSE IF Ld > 0 /\ \A i \in 1..Len(wps) : wps[i].distanceToNext = 0
      THEN [kind |-> "diverges"]
    ELSE [kind |-> "point", p |-> LookaheadWalk(wps, findNearestIndex(wps, from), Ld)]

\* ppParams of Track: lengths in cm, kV in 1/1000 s, rates in 1/1000 rad/s,
\* ayMax = mu * g in 1/1000 m/s^2
ppParams == [L0 |-> 200, kV |-> 1000, LdMin |-> 80, LdMax |-> 800,
             rMax |-> 1000, rRate |-> 2500, ayMax |-> 7848]

\* sqrt(ayMax / |kappa|) in cm/s, kappa in 1/1000 per metre
vMaxOfKappa(kappa) == Isqrt((ppParams.ayMax * 10000) \div Abs(kappa))

\* the preview loop of the speed plan: least targetSpeed ahead, with the time
\* and target speed of every sample passed; minSpd -1 stands for Infinity
RECURSIVE PreviewWalk(_, _, _, _, _, _, _)
PreviewWalk(all, v, idx, previewTime, cur, tleft, acc) ==
    IF tleft <= 0 THEN acc
    ELSE LET wp == all[cur]
             minSpd == IF acc.minSpd < 0 THEN wp.targetSpeed
                       ELSE Min(acc.minSpd, wp.targetSpeed)
             seg == wp.distanceToNext
             vEst == Max(30, Min(Abs(v), wp.targetSpeed))
             tl == tleft - (seg * 1000) \div vEst
             acc2 == [minSpd |-> minSpd,
                      times |-> Append(acc.times, Max(0, previewTime - tl)),
                      speeds |-> Append(acc.speeds, wp.targetSpeed)]
             nxt == (cur % Len(all)) + 1
         IN IF seg = 0 THEN [acc EXCEPT !.minSpd = minSpd]
            ELSE IF nxt = idx THEN acc2
            ELSE PreviewWalk(all, v, idx, previewTime, nxt, tl, acc2)

\* speed plan: [vWp, tToMin]
SpeedPlan(all, state) ==
    LET v == state.speed
        previewTime == clamp(1200 + (Abs(v) * 6) \div 10, 1200, 2000)
        idx == findNearestIndex(all, state.pos)
        r == PreviewWalk(all, v, idx, previewTime, idx, previewTime,
                         [minSpd |-> -1, times |-> <<>>, speeds |-> <<>>])
        hit == {k \in 1..Len(r.speeds) : r.speeds[k] <= r.minSpd}
    IN IF Len(all) = 0 THEN [vWp |-> 800, tToMin |-> 1200]
       ELSE [vWp |-> r.minSpd,
             tToMin |-> IF hit # {}
                          THEN Max(300, r.times[CHOOSE k \in hit : \A h \in hit : k <= h])
                          ELSE Max(800, previewTime)]

\* the yaw rate after saturation only, the rate limit left out
SaturationOnly(rCmd, rPrev, rStep, rMax) == clamp(rCmd, -rMax, rMax)

\* rate limit against the previous yaw rate, then saturation
RateLimit(rCmd, rPrev, rStep, rMax) ==
    clamp(clamp(rCmd, rPrev - rStep, rPrev + rStep), -rMax, rMax)

\* throttle from the ramped speed target: P control, coast band, brake floor
\* and feed-forward brake
ThrottleLaw(v, vTarget, vDesired, tToMin) ==
    LET dv == vTarget - v
        t0 == clamp(Div(22 * dv, 10), -1000, 1000)
        t1 == IF Abs(dv) < 30 THEN Max(0, t0) ELSE t0
        t2 == IF dv < -50 THEN Max(t1, -400) ELSE t1
        tPlan == Max(600, Min(2200, tToMin))
        aReq == ((v - vDesired) * 10000) \div tPlan
        thrFF == -clamp((aReq * 1000) \div Max(100, ppParams.ayMax), 0, 1000)
    IN IF v > vDesired + 20 THEN Min(t2, thrFF) ELSE t2

\* purePursuitController.  state: pos (cm), yaw (1/1000 rad), speed (cm/s),
\* dt (ms); prev: yawRate, vTarget and whether vTarget is defined.
\* Result: throttle (1/1000), yawRate (1/1000 rad/s) and the ramped target.
purePursuitController(wps, state, prev) ==
    LET P == ppParams
        v == state.speed
        Ld0 == clamp(P.L0 + (P.kV * Abs(v)) \div 1000, P.LdMin, P.LdMax)
        look0 == getLookaheadPoint(wps, state.pos, Ld0)
    IN IF look0.kind = "diverges" THEN [kind |-> "diverges"]
       ELSE
       LET alphaOf(look) ==
               wrapAngle(Atan2(look.z - state.pos.z, look.x - state.pos.x) - state.yaw)
           kappaOf(a, Ld) == Div(2 * Sin(a) * 100, Max(1, Ld))
           \* deadband between 0.8 and 0.5 degrees
           alphaDb == lerp(14, 9, clamp(Div(Abs(v) * 1000, 1200), 0, 1000))
           alphaRaw == alphaOf(look0.p)
           alpha0 == IF Abs(alphaRaw) < alphaDb THEN 0 ELSE alphaRaw
           kappa0 == kappaOf(alpha0, Ld0)
           \* corner-adaptive lookahead
           LdEff == (Ld0 * 1000) \div (1000 + Abs(kappa0) \div 2)
           again == Abs(LdEff - Ld0) > 0
           Ld == IF again THEN clamp(LdEff, P.LdMin, P.LdMax) ELSE Ld0
           look == IF again THEN getLookaheadPoint(wps, state.pos, Ld) ELSE look0
           alpha == IF again THEN alphaOf(look.p) ELSE alpha0
           kappa == IF again THEN kappaOf(alpha, Ld) ELSE kappa0
           \* cross-track error against the left normal of the nearest segment
           idxN == findNearestIndex(wps, state.pos)
           eY == IF Len(wps) >= 2
                   THEN LET p0 == wps[idxN].position
                            p1 == wps[(idxN % Len(wps)) + 1].position
                            seg == [x |-> p1.x - p0.x, z |-> p1.z - p0.z]
                            rel == [x |-> state.pos.x - p0.x, z |-> state.pos.z - p0.z]
                            len == PlanarLen(seg)
                        IN IF len > 0 THEN Div(rel.z * seg.x - rel.x * seg.z, len) ELSE 0
                   ELSE 0
           rCrosstrack == Div(220 * eY, Max(100, Abs(v)))
           rCmdRaw == rCrosstrack - Div(v * kappa, 100)
           \* low-pass, friction ellipse, lateral acceleration ceiling
           rPrev == prev.yawRate
           beta == clamp(350 + Div(350 * Abs(v), 1200), 350, 700)
           rLow == rPrev + Div(beta * (rCmdRaw - rPrev), 1000)
           ay == (((v * v) \div 100) * Abs(kappa)) \div 100
           ratio == Min(999, (ay * 1000) \div P.ayMax)
           rEllipse == Div(rLow * Isqrt(1000000 - ratio * ratio), 1000)
           rCeil == IF kappa # 0 /\ v > vMaxOfKappa(kappa)
                      THEN Sign(rEllipse) * ((vMaxOfKappa(kappa) * Abs(kappa)) \div 100)
                      ELSE rEllipse
           \* rate limit and saturation
           rStep == (P.rRate * state.dt) \div 1000
           rCmd == RateLimit(rCeil, rPrev, rStep, P.rMax)
           \* speed plan and ramp of the speed target
           plan == SpeedPlan(wps, state)
           vDesired == IF kappa # 0 THEN Min(plan.vWp, vMaxOfKappa(kappa)) ELSE plan.vWp
           vPrev == IF prev.hasVTarget THEN prev.vTarget ELSE state.speed
           maxUp == (2 * state.dt) \div 5
           maxDn == (3 * state.dt) \div 10
           dvDes == vDesired - vPrev
           vTarget == IF dvDes > 0 THEN vPrev + Min(maxUp, dvDes)
                                   ELSE vPrev + Max(-maxDn, dvDes)
       IN [kind |-> "cmd",
           throttle |-> ThrottleLaw(v, vTarget, vDesired, plan.tToMin),
           yawRate |-> rCmd,
           vTarget |-> vTarget]

(***************************************************************************)
(* The autopilot of Track: path selection, respawn, controller steps       *)
(***************************************************************************)
MaxCalls == 1

Origin == [x |-> 0, z |-> 0]
\* end points offered to StraightWaypointSystem; the first one is its start
StraightEnds == { Origin, [x |-> 500, z |-> 0], [x |-> 300, z |-> 400] }
\* radius and speed limit offered to TurnWaypointSystem
TurnParams == { [radius |-> 200, speedLimit |-> 1400], [radius |-> 1200, speedLimit |-> 300] }
TurnSides == {"right", "left"}
\* the systems a path selection can mount
Systems ==
    { StraightWaypointSystem(Origin, e, 200, 1400) : e \in StraightEnds }
    \cup { TurnWaypointSystem(Origin, 400, t.radius, 400, t.speedLimit, 750, side,
                              t.radius + 400) : t \in TurnParams, side \in TurnSides }

\* vehicle states handed to the controller and query inputs
PosSet == { Origin, [x |-> 260, z |-> 30] }
YawSet == {0, 785}
SpeedSet == {0, 600, 1400}
LdSet == {100, 800}
PrevYawRates == {0, 400}

\* the car of Track: the autopilot car
AICar == 2

VehicleIdle ==
    /\ focus = AICar
    /\ car = [c \in Cars |-> NewCar(c, 880, 0)]
    /\ keys = [c \in Cars |-> {}]
    /\ obs = [c \in Cars |-> NoObs]
    /\ coll = NoColl
    /\ hits = [c \in Cars |-> 0]
    /\ sinceHit = [c \in Cars |-> 0]
    /\ restBlocked = [c \in Cars |-> FALSE]
    /\ ticks = 0

\* Track mounted with one of the paths; the controller may have run before
InitPath ==
    /\ VehicleIdle
    /\ system \in Systems
    /\ aiState \in {NoAiState} \cup
          { [set |-> TRUE, yawRate |-> r, vTarget |-> 0, hasVTarget |-> TRUE] : r \in PrevYawRates }
    /\ out = NoOut
    /\ calls = 0
    /\ resetSince = "none"
    /\ text = <<>>
    /\ parsed = [kind |-> "none"]

\* a path button is clicked: new system, the car is mounted anew, the stored
\* controller state is dropped
SetPath(sys) ==
    /\ sys # system
    /\ system' = sys
    /\ aiState' = NoAiState
    /\ out' = NoOut
    /\ resetSince' = "path"
    /\ car' = [car EXCEPT ![AICar] = NewCar(AICar, @.mass, 0)]
    /\ UNCHANGED <<calls, parseVars>>
    /\ UNCHANGED <<focus, keys, obs, coll, hits, sinceHit, restBlocked, ticks>>

\* respawnAI (R key): the stored controller state is reset
RespawnAI ==
    /\ car' = [car EXCEPT ![AICar] = Respawned(AICar, @)]
    /\ aiState' = [set |-> TRUE, yawRate |-> 0, vTarget |-> 0, hasVTarget |-> TRUE]
    /\ resetSince' = "respawn"
    /\ UNCHANGED <<system, out, calls, parseVars>>
    /\ UNCHANGED <<focus, keys, obs, coll, hits, sinceHit, restBlocked, ticks>>

\* a lookahead query on the mounted path
Lookahead(from, Ld) ==
    /\ calls < MaxCalls
    /\ out' = [kind |-> "look", from |-> from, Ld |-> Ld,
               res |-> getLookaheadPoint(system.waypoints, from, Ld)]
    /\ calls' = calls + 1
    /\ UNCHANGED <<system, aiState, resetSince, carVars, parseVars>>

\* the autopilot hook of the AI car, called by a frame that found the body
\* above the floor: one controller step, then the stored state is updated
\* from the command
AutopilotStep(pos, yaw, speed, dt) ==
    /\ calls < MaxCalls
    /\ car[AICar].pos.y >= -50
    /\ LET st == [pos |-> pos, yaw |-> yaw, speed |-> speed, dt |-> dt]
           stored == IF aiState.set THEN aiState
                     ELSE [set |-> TRUE, yawRate |-> 0, vTarget |-> speed, hasVTarget |-> TRUE]
       IN \E cmd \in {purePursuitController(system.waypoints, st, stored)} :
          /\ out' = [kind |-> "step", state |-> st, prev |-> stored, cmd |-> cmd,
                      after |-> resetSince]
          /\ aiState' = IF cmd.kind = "cmd"
                          THEN [stored EXCEPT !.yawRate = cmd.yawRate,
                                              !.vTarget = Max(0, stored.vTarget + Div(cmd.throttle, 20))]
                          ELSE stored
    /\ calls' = calls + 1
    /\ resetSince' = "none"
    /\ UNCHANGED <<system, carVars, parseVars>>

NextPath ==
    \/ \E sys \in Systems : SetPath(sys)
    \/ RespawnAI
    \/ \E p \in {q \in FallSet : q.y < -50} : Fall(AICar, p)
    \/ \E dt \in StepDtSet : TickRespawn(AICar, dt)
    \/ \E from \in PosSet, Ld \in LdSet : Lookahead(from, Ld)
    \/ \E pos \in PosSet, yaw \in YawSet, speed \in SpeedSet, dt \in StepDtSet :
          AutopilotStep(pos, yaw, speed, dt)

SpecPath == InitPath /\ [][NextPath]_vars

(***************************************************************************)
(* Lookahead queries on any waypoint provider                              *)
(***************************************************************************)
\* the constructor arguments of the tracks that are built.  trackConfig: the
\* defaults, or the wide track of TestTrackWithWaypoints.  waypointConfig:
\* the defaults, a coarser sampling with the limits of TestTrackWithWaypoints,
\* or a low speed limit with a corner factor above 1
TrackSetups ==
    LET DefaultTrack == [outerRadius |-> 1200, trackWidth |-> 400]
        WideTrack == [outerRadius |-> 2800, trackWidth |-> 1600]
        DefaultSampling == [straightSpacing |-> 400, cornerSpacing |-> 80, speedLimit |-> 1600,
                            cornerSpeedFactor |-> 400, maxLateralAccel |-> 800]
        CoarseSampling == [straightSpacing |-> 800, cornerSpacing |-> 240, speedLimit |-> 1800,
                           cornerSpeedFactor |-> 350, maxLateralAccel |-> 900]
        SlowSampling == [straightSpacing |-> 400, cornerSpacing |-> 80, speedLimit |-> 400,
                         cornerSpeedFactor |-> 1200, maxLateralAccel |-> 800]
    IN { [tc |-> DefaultTrack, wc |-> DefaultSampling],
         [tc |-> DefaultTrack, wc |-> CoarseSampling],
         [tc |-> DefaultTrack, wc |-> SlowSampling],
         [tc |-> WideTrack, wc |-> CoarseSampling] }
\* a provider outside the path classes: getWaypoints returns one sample, or
\* two samples at the same place
SampleProviders ==
    { [kind |-> "samples", waypoints |-> <<Waypoint(Origin, 1400)>>],
      [kind |-> "samples", waypoints |-> <<Waypoint(Origin, 1400), Waypoint(Origin, 1400)>>] }
\* what getLookaheadPoint can be handed as its system
Providers ==
    Systems \cup SampleProviders
    \cup { TrackWaypointSystem(t.tc, t.wc) : t \in TrackSetups }

LookFromSet == { Origin, [x |-> 260, z |-> 30], [x |-> -900, z |-> 400] }
LookLdSet == {50, 100, 800, 3000}

InitProvider ==
    /\ VehicleIdle
    /\ system \in Providers
    /\ aiState = NoAiState
    /\ out = NoOut
    /\ calls = 0
    /\ resetSince = "none"
    /\ text = <<>>
    /\ parsed = [kind |-> "none"]

NextProvider ==
    \E from \in LookFromSet, Ld \in LookLdSet : Lookahead(from, Ld)

SpecProvider == InitProvider /\ [][NextProvider]_vars

(***************************************************************************)
(* Participant name parsing (shared/nameParser.ts).  A string is a         *)
(* sequence of one-character strings; weights are in 1/1000.               *)
(***************************************************************************)
Digits == {"0", "1", "2", "3", "4", "5", "6", "7", "8", "9"}
\* the letters that are typed in this model
Letters == {"A", "B", "a", "b"}
DigitValue(ch) ==
    CASE ch = "0" -> 0 [] ch = "1" -> 1 [] ch = "2" -> 2 [] ch = "3" -> 3 [] ch = "4" -> 4
      [] ch = "5" -> 5 [] ch = "6" -> 6 [] ch = "7" -> 7 [] ch = "8" -> 8 [] ch = "9" -> 9

toLowerCase(str) ==
    [i \in 1..Len(str) |-> IF str[i] = "A" THEN "a" ELSE IF str[i] = "B" THEN "b" ELSE str[i]]

\* String.trim
trim(str) ==
    LET idx == {i \in 1..Len(str) : str[i] # " "}
    IN IF idx = {} THEN <<>>
       ELSE SubSeq(str, CHOOSE i \in idx : \A j \in idx : i <= j,
                        CHOOSE i \in idx : \A j \in idx : i >= j)

\* String.split(/[,;\n]/)
RECURSIVE splitSeparators(_)
splitSeparators(str) ==
    LET seps == {i \in 1..Len(str) : str[i] \in {",", ";", "\n"}}
    IN IF seps = {} THEN <<str>>
       ELSE LET k == CHOOSE i \in seps : \A j \in seps : i <= j
            IN <<SubSeq(str, 1, k - 1)>> \o splitSeparators(SubSeq(str, k + 1, Len(str)))

\* parseInt(weightString, 10), in 1/1000
RECURSIVE parseInt(_)
parseInt(ds) ==
    IF Len(ds) = 0 THEN 0
    ELSE parseInt(SubSeq(ds, 1, Len(ds) - 1)) * 10 + DigitValue(ds[Len(ds)]) * 1000

\* PARSING_PATTERNS.WITH_WEIGHT = /^(.+?)\*([1-9][0-9]*)$/ : the positions
\* of a star with a name before it and a positive integer after it up to
\* the end of the string
WithWeightStars(str) ==
    {k \in 2..(Len(str) - 1) :
        /\ str[k] = "*"
        /\ str[k + 1] \in Digits \ {"0"}
        /\ \A j \in (k + 1)..Len(str) : str[j] \in Digits}

\* PARSING_PATTERNS.VALID_NAME and the test for one letter or number
ValidName(name) ==
    \A i \in 1..Len(name) :
        name[i] \in Letters \cup Digits \cup {" ", "-", "_", ".", ",", "!", "?", "(", ")"}
HasAlphanumeric(name) == \E i \in 1..Len(name) : name[i] \in Letters \cup Digits

DEFAULT_PARSING_OPTIONS ==
    [duplicateHandling |-> "merge", normalizeWeights |-> TRUE,
     minWeight |-> 1000, maxWeight |-> 10000, allowEmptyNames |-> FALSE]

ParseError(type, input) == [kind |-> "error", type |-> type, originalInput |-> input]

\* parseSingleInput; no character of the prohibited patterns is in the alphabet
parseSingleInput(input, options) ==
    LET trimmedInput == trim(input)
        stars == WithWeightStars(trimmedInput)
        withWeight == stars # {}
        star == CHOOSE k \in stars : \A j \in stars : k <= j
        name == IF withWeight THEN trim(SubSeq(trimmedInput, 1, star - 1)) ELSE trimmedInput
        weight == IF withWeight
                    THEN parseInt(SubSeq(trimmedInput, star + 1, Len(trimmedInput)))
                    ELSE 1000
    IN IF Len(trimmedInput) = 0 THEN ParseError("EMPTY_NAME", input)
       ELSE IF Len(trimmedInput) > 100 THEN ParseError("INVALID_FORMAT", input)
       ELSE IF Len(name) = 0 THEN ParseError("EMPTY_NAME", input)
       ELSE IF Len(name) > 50 THEN ParseError("INVALID_FORMAT", input)
       ELSE IF ~ValidName(name) THEN ParseError("INVALID_FORMAT", input)
       ELSE IF ~HasAlphanumeric(name) THEN ParseError("INVALID_FORMAT", input)
       ELSE IF weight < options.minWeight \/ weight > options.maxWeight
         THEN ParseError("WEIGHT_OUT_OF_RANGE", input)
       ELSE [kind |-> "entry", name |-> name, weight |-> weight, originalInput |-> input]

\* participants.find / findIndex by lower-case name; 0 when there is none
FindParticipant(participants, nameLower) ==
    LET idx == {i \in 1..Len(participants) : toLowerCase(participants[i].name) = nameLower}
    IN IF idx = {} THEN 0 ELSE CHOOSE i \in idx : \A j \in idx : i <= j

RemoveAt(seq, i) == SubSeq(seq, 1, i - 1) \o SubSeq(seq, i + 1, Len(seq))

\* one pass of the for loop of parseNameInputs over inputs[i]
ParseStep(acc, input, i, options) ==
    LET res == parseSingleInput(input, options)
        entry == [name |-> res.name, weight |-> res.weight, originalInput |-> res.originalInput]
        nameLower == toLowerCase(res.name)
        seen == nameLower \in acc.seenNames
        existing == FindParticipant(acc.participants, nameLower)
        counted == [acc EXCEPT !.duplicatesHandled = @ + 1]
        pushed(a) == [a EXCEPT !.seenNames = @ \cup {nameLower},
                               !.participants = Append(@, entry)]
    IN IF res.kind = "error"
         THEN [acc EXCEPT !.errors = Append(@, [type |-> res.type, index |-> i - 1])]
       ELSE IF ~seen THEN pushed(acc)
       ELSE IF options.duplicateHandling = "error"
         THEN [counted EXCEPT !.errors = Append(@, [type |-> "DUPLICATE_NAME", index |-> i - 1])]
       ELSE IF options.duplicateHandling = "replace"
         THEN pushed(IF existing # 0
                       THEN [counted EXCEPT !.participants = RemoveAt(@, existing)]
                       ELSE counted)
       ELSE IF existing # 0
         THEN [counted EXCEPT
                 !.participants[existing].weight = @ + entry.weight,
                 !.participants[existing].originalInput = @ \o <<",", " ">> \o entry.originalInput]
       ELSE pushed(counted)

RECURSIVE ParseLoop(_, _, _, _)
ParseLoop(acc, inputs, i, options) ==
    IF i > Len(inputs) THEN acc
    ELSE ParseLoop(ParseStep(acc, inputs[i], i, options), inputs, i + 1, options)

RECURSIVE SumWeights(_)
SumWeights(participants) ==
    IF Len(participants) = 0 THEN 0
    ELSE participants[1].weight + SumWeights(Tail(participants))

\* normalizeWeights: the weights are scaled to sum to targetSum
normalizeWeights(participants, targetSum) ==
    LET totalWeight == SumWeights(participants)
    IN IF Len(participants) = 0 THEN <<>>
       ELSE IF totalWeight = 0
         THEN [i \in 1..Len(participants) |->
                 [participants[i] EXCEPT !.weight = targetSum \div Len(participants)]]
       ELSE [i \in 1..Len(participants) |->
                 [participants[i] EXCEPT !.weight = Div(@ * targetSum, totalWeight)]]

parseNameInputs(inputs, options) ==
    LET acc == ParseLoop([participants |-> <<>>, errors |-> <<>>, seenNames |-> {},
                          duplicatesHandled |-> 0], inputs, 1, options)
        finalParticipants ==
            IF options.normalizeWeights /\ Len(acc.participants) > 0
              THEN normalizeWeights(acc.participants, 1000)
              ELSE acc.participants
    IN [kind |-> "result",
        participants |-> finalParticipants,
        errors |-> acc.errors,
        isValid |-> (Len(acc.errors) = 0),
        stats |-> [totalInputs |-> Len(inputs),
                   successfullyParsed |-> Len(acc.participants),
                   errorCount |-> Len(acc.errors),
                   duplicatesHandled |-> acc.duplicatesHandled]]

parseNameString(inputString, options) ==
    LET pieces == splitSeparators(inputString)
        trimmed == [i \in 1..Len(pieces) |-> trim(pieces[i])]
    IN parseNameInputs(SelectSeq(trimmed, LAMBDA piece : Len(piece) > 0), options)

(***************************************************************************)
(* The participant input: entries are typed one after the other and the    *)
(* text is submitted to parseNameString.                                   *)
(***************************************************************************)
MaxEntries == 3

\* the entries that are typed: Alice*2, alice*3, Bob*1, Bob, Alice*0 and
\* Alice with blanks around it
RawEntries ==
    { <<"A", "*", "2">>, <<"a", "*", "3">>, <<"B", "*", "1">>, <<"B">>,
      <<"A", "*", "0">>, <<" ", "A", " ">> }
SeparatorSet == {",", ";"}
\* the options a caller passes: the defaults, or the defaults without
\* normalisation
OptionSet ==
    { DEFAULT_PARSING_OPTIONS, [DEFAULT_PARSING_OPTIONS EXCEPT !.normalizeWeights = FALSE] }

NoParsed == [kind |-> "none"]
EntriesTyped(str) ==
    IF Len(str) = 0 THEN 0
    ELSE 1 + Cardinality({i \in 1..Len(str) : str[i] \in SeparatorSet})

InitParse ==
    /\ VehicleIdle
    /\ system = NoSystem
    /\ aiState = NoAiState
    /\ out = NoOut
    /\ calls = 0
    /\ resetSince = "none"
    /\ text = <<>>
    /\ parsed = NoParsed

\* one more entry is typed after a separator
TypeEntry(e, sep) ==
    /\ EntriesTyped(text) < MaxEntries
    /\ text' = IF Len(text) = 0 THEN e ELSE text \o <<sep>> \o e
    /\ parsed' = NoParsed
    /\ UNCHANGED <<carVars, pathVars>>

\* the text is handed to parseNameString
Submit(options) ==
    /\ Len(text) > 0
    /\ parsed' = parseNameString(text, options) @@ [options |-> options]
    /\ text' = text
    /\ UNCHANGED <<carVars, pathVars>>

\* the input field is cleared
ClearText ==
    /\ Len(text) > 0
    /\ text' = <<>>
    /\ parsed' = NoParsed
    /\ UNCHANGED <<carVars, pathVars>>

NextParse ==
    \/ \E e \in RawEntries, sep \in SeparatorSet : TypeEntry(e, sep)
    \/ \E options \in OptionSet : Submit(options)
    \/ ClearText

SpecParse == InitParse /\ [][NextParse]_vars

(***************************************************************************)
(* Properties of the vehicle                                               *)
(***************************************************************************)
\* C1: after every tick the planar speed of the body, once the physics step
\* has integrated what the tick applied, is at most maxSpeed * 1.05.  Stated
\* here for bodies no collision response has touched.
C1_PostTickSpeedWithinCap ==
    \A c \in Cars :
        (obs[c].kind = "tick" /\ hits[1] = 0 /\ hits[2] = 0)
            => PlanarLen(car[c].vel) <= hardMax(c)

\* C2: in every tick the drive force applied along the forward axis has a
\* magnitude of at most mass * 9.81 * mu, reverse boost included.
C2_DriveForceWithinTraction ==
    \A c \in Cars :
        obs[c].kind = "tick" => Abs(obs[c].driveForce) <= maxTraction(car[c].mass, c)
\* a tick in which the reverse boost ran into the traction ceiling
C2_Witness ==
    \E c \in Cars :
        /\ obs[c].kind = "tick"
        /\ obs[c].frontBlocked /\ "s" \in keys[c]
        /\ obs[c].driveForce = -maxTraction(car[c].mass, c)
        /\ (engineForce[c] * 16) \div 10 > maxTraction(car[c].mass, c)

\* C3: in every processed collision the impulse on the other body is the
\* exact negation of the impulse on the handling body, capped or not; planar
\* momentum is conserved up to the rounding of the two velocity updates; an
\* uncapped response leaves the relative normal velocity at -0.4 times what
\* it was; equal masses meeting head-on at equal speeds leave at equal speeds.
C3_CollisionImpulseSymmetric ==
    coll.kind = "applied" =>
        LET m1 == car[1].mass
            m2 == car[2].mass
            pre == coll.pre
            post == coll.post
            me == coll.my
            capped == Abs(coll.impulse.x) + Abs(coll.impulse.z) = car[me].mass * 1200
            relPre == pre[1].x - pre[2].x
            relPost == post[1].x - post[2].x
        IN /\ coll.otherImpulse.x = -coll.impulse.x
           /\ coll.otherImpulse.z = -coll.impulse.z
           /\ Abs((m1 * post[1].x + m2 * post[2].x) - (m1 * pre[1].x + m2 * pre[2].x)) < m1 + m2
           /\ Abs((m1 * post[1].z + m2 * post[2].z) - (m1 * pre[1].z + m2 * pre[2].z)) < m1 + m2
           /\ ~capped => Abs(10 * relPost + 4 * relPre) <= 30
           /\ (m1 = m2 /\ pre[1].x = -pre[2].x /\ pre[1].z = 0 /\ pre[2].z = 0)
                  => post[1].x = -post[2].x
\* equal masses meet head-on at equal speeds and the impulse cap is hit
C3_Witness ==
    /\ coll.kind = "applied"
    /\ car[1].mass = car[2].mass
    /\ coll.pre[1].x = -coll.pre[2].x /\ coll.pre[1].x > 0
    /\ Abs(coll.impulse.x) = car[coll.my].mass * 1200
    /\ Abs(coll.post[1].x) < Abs(coll.pre[1].x)

\* C9: in every tick in which the front is blocked the drive force along the
\* forward axis is <= 0, and a car that was at rest and has been blocked with
\* forward held in every tick since has no positive forward velocity.
C9_NoForwardDriveWhenBlocked ==
    \A c \in Cars :
        /\ (obs[c].kind = "tick" /\ obs[c].frontBlocked) => obs[c].driveForce <= 0
        /\ restBlocked[c] => forwardDot(c, car[c].vel) <= 0
\* the manual car stood still, was blocked with forward held, and a tick ran
C9_Witness ==
    \E c \in Cars :
        /\ ticks >= 1
        /\ restBlocked[c]
        /\ obs[c].kind = "tick" /\ obs[c].frontBlocked
        /\ keys[c] = {"w"}
        /\ forwardDot(c, car[c].vel) < 0

\* C10: a collision event is processed only if no event was processed before
\* or ticks with dt summing to at least 0.2 s have run since the last one; the
\* cooldown changes only by being set to 0.2 s by a processed event or by
\* being decreased by the dt of a tick.
C10_CooldownDiscipline ==
    [][\A c \in Cars :
          /\ hits'[c] # hits[c] =>
                /\ hits[c] = 0 \/ sinceHit[c] >= 200
                /\ car'[c].collisionCooldown = 200
          /\ car'[c].collisionCooldown # car[c].collisionCooldown =>
                \/ hits'[c] = hits[c] + 1 /\ car'[c].collisionCooldown = 200
                \/ /\ ticks' = ticks + 1
                   /\ hits'[c] = hits[c]
                   /\ car[c].collisionCooldown > 0
                   /\ \E dt \in DtSet :
                         car'[c].collisionCooldown = car[c].collisionCooldown - dt
      ]_vars
\* a second event of one car was processed after the cooldown had run out
C10_Witness ==
    \E c \in Cars : hits[c] >= 2 /\ sinceHit[c] = 0 /\ car[c].collisionCooldown = 200

\* C11: a tick that starts with the body below the floor threshold
\* (y < -0.5) teleports it to its spawn position with linear and angular
\* velocity zero and does nothing else: no force or impulse is applied, the
\* autopilot is not called, no ref besides the cooldown timers changes and
\* no velocity is written afterwards.
C11_FallRespawnOnly ==
    [][\A c \in Cars :
          (ticks' = ticks + 1 /\ c = focus /\ car[c].pos.y < -50) =>
              /\ obs'[c].kind = "respawn"
              /\ car'[c].pos = spawn(c)
              /\ car'[c].vel = Zero3
              /\ car'[c].av = 0
              /\ obs'[c].force = Zero3
              /\ ~obs'[c].impulse
              /\ ~obs'[c].autopilotCalled
              /\ \A fld \in {"throttle", "steer", "wasFrontBlocked", "wallAvoidTimer",
                              "wallAvoidSteerSign", "frontSensorBlocked", "mass"} :
                     car'[c][fld] = car[c][fld]
    ]_vars

\* a moving, tumbling body below the threshold was respawned while its
\* drive input was on
C11_Witness ==
    \E c \in Cars :
        /\ obs[c].kind = "respawn"
        /\ obs[c].from.pos.y < -50
        /\ obs[c].from.vel.x # 0
        /\ obs[c].from.av # 0
        /\ (AutoControl[c] \/ "w" \in keys[c])
        /\ car[c].pos = spawn(c) /\ car[c].vel = Zero3 /\ car[c].av = 0

\* C14: in autopilot mode, in a tick with a negative throttle command, planar
\* speed above 0.2 and the front not blocked, the command is applied as a
\* braking force opposing the velocity only: no drive force along the
\* negative forward axis is applied.
C14_AutopilotNegativeThrottleBrakesOnly ==
    \A c \in Cars :
        (/\ obs[c].kind = "tick"
         /\ AutoControl[c]
         /\ obs[c].throttle < 0
         /\ obs[c].speed > 20
         /\ ~obs[c].frontBlocked)
            => (obs[c].brake > 0 /\ obs[c].driveForce >= 0)

\* C18: the front-block entry response (bounce impulse when the forward
\* speed exceeds 0.05 m/s, avoidance steering sign, 0.6 s avoidance timer)
\* fires at most once in a run of consecutive frames that find the front
\* blocked: a frame fires it only if no frame of the run has fired it, and
\* only a frame that finds the front not blocked opens a new run.
C18_EntryOncePerBlockedRun ==
    \A c \in Cars :
        obs[c].kind # "none" =>
            /\ obs[c].runEntries <= 1
            /\ (obs[c].kind = "tick" /\ obs[c].frontBlocked /\ obs[c].runEntries = 1)
                   => car[c].wasFrontBlocked
            /\ (obs[c].kind = "tick" /\ obs[c].entryImpulse) => obs[c].entry
\* the second frame of a run: the first frame fired the entry with its
\* impulse, this one found the front still blocked and near and did not
C18_Witness ==
    \E c \in Cars :
        /\ ticks >= 1
        /\ obs[c].kind = "tick"
        /\ obs[c].frontBlocked /\ obs[c].frontNear
        /\ ~obs[c].entry
        /\ obs[c].runEntries = 1
        /\ car[c].wasFrontBlocked

\* C19: a frame that finds the front blocked and near while the forward
\* component of the velocity exceeds 0.01 m/s leaves a velocity on the body
\* whose forward component is not positive any more (0, or below 0 when the
\* reverse unstick impulse of the same frame acts): no later write of the
\* frame (vertical speed cap, planar hard cap) restores it.
C19_ForwardComponentStaysRemoved ==
    \A c \in Cars :
        (obs[c].kind = "tick" /\ obs[c].removal)
            => forwardDot(c, obs[c].left) <= 0

\* C20: in manual mode a frame with only the forward key held drives with
\* a throttle >= 0 and a frame with only the back key held with a throttle
\* <= 0, whatever the smoothing state, also right after the keys were
\* switched and also while the front is blocked.
C20_OneKeyKeepsThrottleSign ==
    \A c \in Cars :
        (obs[c].kind = "tick" /\ ~AutoControl[c]) =>
            /\ obs[c].keys \cap {"w", "s"} = {"w"}
                   => (obs[c].throttle >= 0 /\ obs[c].driveThrottle >= 0)
            /\ obs[c].keys \cap {"w", "s"} = {"s"}
                   => (obs[c].throttle <= 0 /\ obs[c].driveThrottle <= 0)

\* C21: in a frame of a manual car the smoothed throttle moves toward 0 at
\* the fast rate (15 per second) when no throttle key is held, and away from
\* 0 toward the key's side at the slow rate (4.5 per second) when only the
\* forward or only the back key is held; it always stays within [-1, 1].
\* (Frames in which the front-block reverse snap replaces the smoothing are
\* left out.)
C21_ReleaseFastEngageSlow ==
    [][\A c \in Cars :
          (/\ ticks' = ticks + 1 /\ c = focus /\ ~AutoControl[c]
           /\ obs'[c].kind = "tick"
           /\ ~(obs'[c].frontBlocked /\ "s" \in keys[c])) =>
              LET prev == car[c].throttle
                  dt == obs'[c].dt
                  held == keys[c] \cap {"w", "s"}
                  raw == IF held = {"w"} THEN 1000 ELSE IF held = {"s"} THEN -1000 ELSE 0
              IN /\ car'[c].throttle >= -1000 /\ car'[c].throttle <= 1000
                 /\ held = {} => car'[c].throttle = lerp(prev, 0, 15 * dt)
                 /\ (raw # 0 /\ prev * raw >= 0)
                        => car'[c].throttle = lerp(prev, raw, (9 * dt) \div 2)
    ]_vars

\* C22: in every processed collision the linear impulse applied to each of
\* the two bodies has a magnitude of at most 12 times that body's own mass
\* (the contact normal lies along one axis, so the magnitude is the sum of
\* the absolute components).
C22_ImpulseWithinOwnMassCap ==
    coll.kind = "applied" =>
        LET me == coll.my
            o == Other(me)
        IN /\ Abs(coll.impulse.x) + Abs(coll.impulse.z) <= car[me].mass * 1200
           /\ Abs(coll.otherImpulse.x) + Abs(coll.otherImpulse.z) <= car[o].mass * 1200

\* C23: every processed collision applies a yaw torque impulse to both bodies
\* with the same scaling: on each body its magnitude is 0.05 of the magnitude
\* of the linear impulse actually applied to that body, and on the handler's
\* body its sign follows the cross product of contact normal and relative
\* velocity (positive when the cross product is positive, negative otherwise).
C23_YawImpulseOnBothBodies ==
    coll.kind = "applied" =>
        LET me == coll.my
            normal == collisionDirection(me)
            rel == [x |-> coll.pre[me].x - coll.pre[Other(me)].x,
                    z |-> coll.pre[me].z - coll.pre[Other(me)].z]
            crossProduct == normal.x * rel.z - normal.z * rel.x
        IN /\ Abs(coll.torque) = ((Abs(coll.impulse.x) + Abs(coll.impulse.z)) * 5) \div 100
           /\ Abs(coll.otherTorque)
                  = ((Abs(coll.otherImpulse.x) + Abs(coll.otherImpulse.z)) * 5) \div 100
           /\ (crossProduct > 0) = (coll.torque > 0)

\* C24: every tick that starts with a vertical speed above 16 m/s in
\* magnitude leaves the body with a vertical speed of magnitude exactly 16,
\* also when the planar hard cap is applied in the same tick.
C24_VerticalSpeedCapped ==
    \A c \in Cars :
        (obs[c].kind = "tick" /\ Abs(obs[c].lv.y) > 1600)
            => Abs(obs[c].left.y) = 1600

\* C25: getLookaheadPoint returns a point for every non-empty path and every
\* Ld > 0, also when every segment of the path is degenerate (one sample, or
\* every distanceToNext at most 1e-4).
C25_LookaheadTerminates ==
    (out.kind = "look" /\ Len(system.waypoints) > 0 /\ out.Ld > 0)
        => out.res.kind = "point"

\* C26: for a contact of two vehicles that both handle collision-enter, the
\* velocities, yaw rates and cooldowns the contact leaves are the same
\* whichever handler the physics world calls first, and the collision impulse
\* is applied to the pair at most once.
C26_HandlerOrderIrrelevant ==
    [][(hits' # hits /\ coll'.kind = "both") =>
          LET swapped == BothHandlers(car, Other(coll'.first))
          IN /\ \A d \in Cars :
                   /\ car'[d].vel = swapped.car[d].vel
                   /\ car'[d].av = swapped.car[d].av
                   /\ car'[d].collisionCooldown = swapped.car[d].collisionCooldown
             /\ coll'.applications <= 1
    ]_vars

\* C28: whatever the order of the intersection-enter and -exit events of the
\* front bumper sensor with several fixed bodies, frontSensorBlocked is true
\* while the sensor overlaps at least one fixed body and is false only when
\* it overlaps none.
C28_SensorFlagFollowsOverlap ==
    \A c \in Cars : car[c].overlap # {} => car[c].frontSensorBlocked

\* C29: every tick that applies a positive drive force (throttle > 0) while
\* the brake key is not held applies no braking force against the velocity,
\* in manual and in autopilot mode.
C29_NoBrakeWhileDriving ==
    \A c \in Cars :
        (/\ obs[c].kind = "tick"
         /\ obs[c].throttle > 0 /\ obs[c].driveForce > 0
         /\ " " \notin obs[c].keys)
            => obs[c].brake = 0

\* C27: in every tick in manual mode the target yaw rate is computed from the
\* manual steering input and the optional assist blend only, also when the
\* car ran under autopilot before and was given a yaw-rate command.
C27_ManualYawFromManualInput ==
    [][\A c \in Cars :
          (/\ ticks' = ticks + 1 /\ c = focus
           /\ obs'[c].kind = "tick" /\ ~car[c].autoControl)
              => obs'[c].targetYaw
                    = ManualTargetYaw(FALSE, obs'[c].steer, obs'[c].speed, car'[c].assistYawRate)
    ]_vars

\* C30: once a TrackWaypointSystem is constructed, the target speed of every
\* corner sample is at most sqrt(maxLateralAccel * radius) of its corner and
\* the target speed of every sample is at most speedLimit.
C30_TargetSpeedsWithinLimits ==
    system.kind = "track" =>
        \A i \in 1..Len(system.waypoints) :
            LET wp == system.waypoints[i]
            IN /\ wp.targetSpeed <= system.waypointConfig.speedLimit
               /\ wp.type = "corner" =>
                      wp.targetSpeed <= Isqrt(system.waypointConfig.maxLateralAccel * wp.radius)

(***************************************************************************)
(* Properties of the paths and of the controller (SpecPath)                *)
(***************************************************************************)
\* path length left from sample i to the end of the sample list
RECURSIVE RemainingLength(_, _)
RemainingLength(wps, i) ==
    IF i > Len(wps) THEN 0 ELSE wps[i].distanceToNext + RemainingLength(wps, i + 1)

\* C4: on an open path, a lookahead distance longer than the path left after
\* the nearest sample yields exactly the position of the final sample; the
\* query neither extrapolates nor continues from the first sample.
C4_LookaheadEndsAtFinalSample ==
    LET wps == system.waypoints
    IN (/\ out.kind = "look"
        /\ Len(wps) > 0
        /\ wps[Len(wps)].distanceToNext = 0
        /\ out.Ld > RemainingLength(wps, findNearestIndex(wps, out.from)))
          => out.res = [kind |-> "point", p |-> wps[Len(wps)].position]

\* C5: on a path without samples the controller returns the neutral command,
\* throttle 0 and yaw rate 0, whatever the vehicle state and the stored
\* controller state.
C5_EmptyPathNeutralCommand ==
    (out.kind = "step" /\ Len(system.waypoints) = 0)
        => (out.cmd.kind = "cmd" /\ out.cmd.throttle = 0 /\ out.cmd.yawRate = 0)

\* C6: no constructed path object holds fewer than two samples.
C6_PathHasTwoSamples ==
    system.kind \in {"straight", "turn"} => Len(system.waypoints) >= 2

\* C7: every sample on the quarter arc of a turn path has the target speed
\* min(speedLimit, sqrt(maxLatAccel * R)), whose square is at most
\* maxLatAccel * R, and no sample of the path is faster than speedLimit.
C7_ArcSpeedIsCorneringSpeed ==
    system.kind = "turn" =>
        LET wps == system.waypoints
            first == nS(system.start.x, system.approachEndX, system.spacing) + 1
            last == first + nA(system.radius, system.spacing) - 1
            lim == system.maxLatAccel * system.radius
        IN /\ last < Len(wps)
           /\ \A i \in first..last :
                 /\ wps[i].targetSpeed = Min(system.speedLimit, Isqrt(lim))
                 /\ wps[i].targetSpeed * wps[i].targetSpeed <= lim
           /\ \A i \in 1..Len(wps) : wps[i].targetSpeed <= system.speedLimit

\* a turn path mounted by a path selection whose arc is slower than the
\* speed limit, at the integer square root of maxLatAccel * R
C7_Witness ==
    /\ system.kind = "turn"
    /\ aiState = NoAiState
    /\ calls > 0
    /\ \E i \in 1..Len(system.waypoints) :
          LET v == system.waypoints[i].targetSpeed
              lim == system.maxLatAccel * system.radius
          IN v < system.speedLimit /\ v * v <= lim /\ (v + 1) * (v + 1) > lim

\* C12: a controller step that follows a respawn of the vehicle (the R key
\* or the automatic respawn below the floor) or a path change, with no
\* other step in between, works on a reset controller state: previous yaw
\* rate 0 and previous target speed 0 or the current speed.
C12_ControllerStateResetOnRespawn ==
    (out.kind = "step" /\ out.after # "none")
        => (out.prev.yawRate = 0 /\ out.prev.vTarget \in {0, out.state.speed})

\* C15: whenever the speed error |vTarget - speed| of a controller step is
\* below 0.3 m/s the returned throttle is not negative (coast only), also
\* in steps in which the overspeed feed-forward term is active.
C15_NoBrakeInsideErrorBand ==
    (/\ out.kind = "step"
     /\ out.cmd.kind = "cmd"
     /\ Abs(out.cmd.vTarget - out.state.speed) < 30)
        => out.cmd.throttle >= 0

\* the yaw rate the caller has stored before a controller step
StoredYawRate == IF aiState.set THEN aiState.yawRate ELSE 0

C17_StoredTargetIsRampedTarget ==
    (/\ out.kind = "step"
     /\ out.cmd.kind = "cmd")
        => aiState.vTarget = out.cmd.vTarget

(***************************************************************************)
(* Properties of the participant parsing (SpecParse)                       *)
(***************************************************************************)
\* the entries of a text that parse without an error
ValidEntries(str) ==
    LET pieces == splitSeparators(str)
        results == [i \in 1..Len(pieces) |-> parseSingleInput(pieces[i], DEFAULT_PARSING_OPTIONS)]
    IN SelectSeq(results, LAMBDA res : res.kind = "entry")
\* the sum of the weights of the entries with one name, ignoring case
RECURSIVE WeightOfName(_, _)
WeightOfName(entries, nameLower) ==
    IF Len(entries) = 0 THEN 0
    ELSE (IF toLowerCase(entries[1].name) = nameLower THEN entries[1].weight ELSE 0)
         + WeightOfName(Tail(entries), nameLower)

\* C13: with the default options parseNameString returns exactly one
\* participant per distinct name, ignoring case, and its weight is the sum
\* of the integer weights of the inputs with that name.
C13_MergedWeightIsSum ==
    (parsed.kind = "result" /\ parsed.options = DEFAULT_PARSING_OPTIONS) =>
        LET entries == ValidEntries(text)
            names == {toLowerCase(entries[i].name) : i \in 1..Len(entries)}
        IN /\ Len(parsed.participants) = Cardinality(names)
           /\ \A i \in 1..Len(parsed.participants) :
                 parsed.participants[i].weight =
                     WeightOfName(entries, toLowerCase(parsed.participants[i].name))
====
